---- MODULE Spec2Model ----
(***************************************************************************)
(* Ingestion pipeline of Virtuos-Market (src/module-1): the adaptive token *)
(* bucket of rate_limiter.py with the callers of fetcher.py, and the       *)
(* two-tier cache of cache_manager.py.                                     *)
(*                                                                         *)
(* Units.  The clock `now` counts whole seconds.  Token amounts are kept   *)
(* in sixtieths of a token (TOKEN = 60) and refill_rate in tokens per      *)
(* minute, so that `elapsed * self.refill_rate` of the source, a float, is *)
(* the exact integer (now - last_refill) * refill_rate here.               *)
(***************************************************************************)
EXTENDS Integers, Sequences, FiniteSets, TLC

\* ---------------------------------------------------------------- bounds
NumTasks == 2              \* concurrent callers of make_request
MaxSmallNominal == 3       \* Spec explores the nominal capacities 1..MaxSmallNominal
FastNominal == 15          \* and one whose refill of a token takes less than MAX_WAIT
MaxConcurrent == 2         \* config.max_concurrent_requests ranges over 1..MaxConcurrent
MaxClock == 5              \* last second of the clock in Spec
MaxRecent == 3             \* throttle reports kept in recent_limits
MaxNominal == 23           \* AdaptSpec explores the nominal capacities 1..MaxNominal
MaxFine == 1               \* AdaptSpec: seconds explored after each multiple of WINDOW
MaxWindows == 1            \* AdaptSpec: whole throttle windows the clock may pass
SlotsPerDay == 2           \* CacheSpec: slots in a day
MaxSlot == 1               \* CacheSpec: OHLC ranges lie in 0..MaxSlot
MaxCandle == 0             \* CacheSpec: candle times 0..MaxCandle
MaxPayload == 2            \* CacheSpec: distinct payloads
MaxVersion == 2            \* CacheSpec: schema versions 1..MaxVersion
MaxCacheClock == 2         \* CacheSpec: last slot of the clock
CacheExpiry == 2           \* the TTL (cache_expiry_days), in slots
MaxCacheSize == 3          \* capacity of the memory tier explored (_max_cache_size)
MaxLruCandle == 4          \* LruSpec: candle times 0..MaxLruCandle
MaxCalls == 2              \* FetchSpec: calls of fetch_complete_dataset
MaxSplitTime == 7          \* SplitSpec: start_time and end_time lie in 0..MaxSplitTime
MaxBatchSize == 2          \* SplitSpec: config.max_batch_size ranges over 1..MaxBatchSize
MaxBatches == 4            \* SplitSpec: batches a split may append
TicksPerMinute == 2        \* SplitSpec: instants of chunk_date_range in a minute
MinutesPerHour == 2        \* SplitSpec: minutes in an hour
HoursPerDay == 2           \* SplitSpec: hours in a day
MaxRows == 2               \* ValidateSpec: rows of a candle frame
MaxStamp == 2              \* ValidateSpec: timestamps 0..MaxStamp, in intervals
MaxPrice == 2              \* ValidateSpec: high and low lie in -1..MaxPrice
MaxOhlcEnd == 2            \* OhlcSpec: fetch_ohlc_data is called for 0..end, end <= MaxOhlcEnd
MaxTrades == 3             \* BarsSpec: trades in the frame given to aggregate_to_minute_bars
MaxTradeTime == 3          \* BarsSpec: trade timestamps lie in 0..MaxTradeTime
MaxTradePrice == 2         \* BarsSpec: trade prices lie in 1..MaxTradePrice
MaxTradeId == 3            \* ValidateSpec: trade ids lie in 1..MaxTradeId
LongDelay == 40            \* RetrySpec: a delay argument whose second backoff exceeds the cap
MaxMarket == 3             \* PageSpec: trades the exchange holds
MaxPageLimit == 2          \* PageSpec: the batch limit ranges over 1..MaxPageLimit
MaxBucket == 2             \* VolumeSpec: trades fall in the 1-minute buckets 0..MaxBucket
MaxQuantity == 2           \* VolumeSpec: a trade's quantity is 1 or MaxQuantity
MaxVolumeTrades == 2       \* VolumeSpec: trades in the frame

\* ------------------------------------------------------- program constants
TOKEN == 60                \* one token, in sixtieths
MAX_WAIT == 5              \* wait_time = min(wait_time, 5.0)
WINDOW == 300              \* (now - t).total_seconds() < 300
MIN_RECENT == 3            \* len(self.recent_limits) >= 3
RETRY_AFTER == 5           \* response.headers.get('Retry-After', 5)
MAX_ATTEMPTS == 3          \* @retry(max_attempts=3, ...)
DELAY == 1                 \* @retry(..., delay=1.0), seconds
BACKOFF_FACTOR == 2        \* @retry(..., backoff_factor=2.0)
MAX_DELAY == 60            \* current_delay = min(current_delay, 60)

Tasks == 1..NumTasks
NoTask == 0
NominalCapacities == (1..MaxSmallNominal) \cup {FastNominal}
Instants == {w * WINDOW + s : w \in 0..MaxWindows, s \in 0..MaxFine}

Min(a, b) == IF a <= b THEN a ELSE b
Max(a, b) == IF a >= b THEN a ELSE b
CeilDiv(a, b) == (a + b - 1) \div b

VARIABLES
    now,                      \* time.time() / datetime.now()
    max_tokens,               \* RateLimiter.max_tokens (nominal capacity)
    max_concurrent_requests,  \* config.max_concurrent_requests
    tokens,                   \* RateLimiter.tokens, in sixtieths
    refill_rate,              \* RateLimiter.refill_rate, in tokens per minute
    last_refill,              \* RateLimiter.last_refill
    current_limit,            \* RateLimiter.current_limit (effective capacity)
    recent_limits,            \* RateLimiter.recent_limits, times of throttle reports
    semaphore,                \* free permits of RateLimiter.semaphore
    lock,                     \* holder of RateLimiter.lock, or NoTask
    pc,                       \* position of each caller
    wake,                     \* instant at which a sleeping caller may resume
    cache_version,            \* config.cache_version of the running process
    files,                    \* payload file (.parquet) at each cache path
    sidecar,                  \* .metadata.json beside each payload file
    written_by,               \* history: the metadata of the save that wrote each payload file
    memory_cache,             \* CacheManager._memory_cache, oldest entry first
    last_call,                \* the latest CacheManager call: arguments and result
    access_order,             \* keys by last insert or hit in memory, most recent last
    raised,                   \* a CacheManager call has raised to its caller
    fetch_pc,                 \* position of fetch_complete_dataset (binance_fetcher.py)
    fetch_range,              \* (start_time, end_time) of the fetch_complete_dataset calls
    fetch_call,               \* number of the fetch_complete_dataset call under way
    fetch_requests,           \* requests the call under way has sent to the API
    candle,                   \* candle whose trades fetch_complete_dataset processes
    no_trades,                \* candles for which the API holds no trade
    split_args,               \* arguments of the range split under way
    split_pc,                 \* position of the range split: "idle", "loop" or "done"
    current_start,            \* current_start of the split loop
    batches,                  \* batches (chunks) appended so far
    ohlc_df,                  \* the candle frame handed to validate_ohlc
    validator,                \* the module whose DataValidator is called
    validation_result,        \* what validate_ohlc returned
    fixed_df,                 \* the fix_common_issues calls: how many, the last argument and return
    ohlc_pc,                  \* position of fetch_ohlc_data (fetcher.py)
    batch_results,            \* result of each _fetch_ohlc_batch task, in task order
    cache_set,                \* the frame handed to cache_manager.set, if any
    returned_df,              \* the frame fetch_ohlc_data returned, if any
    retry_pc,                 \* position of a call of a function decorated with retry
    wrapped,                  \* what retry decorates: a plain function or a coroutine function
    responses,                \* HTTP status the server gives to the 1st, 2nd, ... request
    attempt,                  \* attempt of the retry wrapper's loop
    requests_sent,            \* requests sent during the call
    throttle_reports,         \* calls of rate_limiter.record_rate_limit during the call
    backoff_delays,           \* delays the retry wrapper has slept, in seconds
    request_result,           \* how the call ended for its caller
    delay,                    \* the decorator's argument delay, in seconds
    last_exception,           \* the wrapper's last_exception: status of the failed response, 0 for None
    caller_exception,         \* status carried by the exception that reached the caller, 0 for none
    slept,                    \* seconds slept so far during the call
    request_times,            \* value of slept when each request was sent
    admitted,                 \* tokens wait_if_needed consumed during the call
    pager,                    \* the method paging through trades
    market,                   \* the exchange's trades: market[i] is the timestamp of trade id i
    trade_range,              \* <<start_time, end_time>> of the trade fetch
    page_limit,               \* config.max_trade_batch_size (max_batch_size)
    page_pc,                  \* position of the paging loop
    from_id,                  \* the loop's from_id, 0 for None
    page_requests,            \* parameters of each trades request sent
    pages,                    \* the batch each request returned
    all_trades,               \* the loop's all_trades
    trades_df,                \* a frame of trades: argument of aggregate_to_minute_bars or validate_trades
    minute_bars               \* frame returned by aggregate_to_minute_bars, if any

limiterVars == <<now, max_tokens, max_concurrent_requests, tokens, refill_rate,
                 last_refill, current_limit, recent_limits, semaphore, lock, pc, wake>>

bucketVars == <<max_tokens, max_concurrent_requests, tokens, refill_rate,
                last_refill, current_limit, recent_limits, semaphore, lock, pc, wake>>

cacheVars ==
    <<cache_version, files, sidecar, written_by, memory_cache, last_call, access_order>>

syncVars == <<fetch_pc, fetch_range, fetch_call, fetch_requests, candle, no_trades>>

splitVars == <<split_args, split_pc, current_start, batches>>

\* State of the fetchers and of the data functions around limiter and cache.
validVars == <<ohlc_df, validator, validation_result, fixed_df>>

asyncVars == <<ohlc_pc, batch_results, cache_set, returned_df>>
retryVars == <<retry_pc, wrapped, responses, attempt, requests_sent, throttle_reports,
               backoff_delays, request_result, delay, last_exception, caller_exception,
               slept, request_times, admitted>>
barsVars == <<trades_df, minute_bars>>
pageVars == <<pager, market, trade_range, page_limit, page_pc, from_id, page_requests, pages,
              all_trades>>

pipelineVars == <<raised, syncVars, splitVars, validVars, asyncVars, retryVars, barsVars,
                  pageVars>>

\* What the steps of one part of the pipeline leave alone.
syncFrame ==
    <<limiterVars, access_order, splitVars, validVars, asyncVars, retryVars, barsVars,
      pageVars>>
splitFrame ==
    <<limiterVars, cacheVars, raised, syncVars, validVars, asyncVars, retryVars, barsVars,
      pageVars>>
validFrame ==
    <<limiterVars, cacheVars, raised, syncVars, splitVars, asyncVars, retryVars, barsVars,
      pageVars>>
asyncFrame ==
    <<limiterVars, cacheVars, raised, syncVars, retryVars, barsVars,
      pageVars>>
retryFrame ==
    <<limiterVars, cacheVars, raised, syncVars, splitVars, validVars, asyncVars, barsVars,
      pageVars>>
pageFrame ==
    <<limiterVars, cacheVars, raised, syncVars, splitVars, validVars, asyncVars, retryVars,
      barsVars>>
barsFrame ==
    <<limiterVars, cacheVars, raised, syncVars, splitVars, validVars, asyncVars, retryVars,
      pageVars>>

vars == <<limiterVars, cacheVars, pipelineVars>>

\* No fetch_complete_dataset call is under way.
SyncIdle ==
    /\ fetch_pc = "idle"
    /\ fetch_range = <<0, 0>>
    /\ fetch_call = 0
    /\ fetch_requests = 0
    /\ candle = 0
    /\ no_trades = {}

\* No range split is under way.
SplitIdle ==
    /\ split_args = [fn |-> "none"]
    /\ split_pc = "idle"
    /\ current_start = 0
    /\ batches = <<>>

NoResult ==
    [fn |-> "none", valid |-> TRUE, issues |-> {}, warnings |-> {}, metrics |-> {},
     returned |-> FALSE]

\* fix_common_issues has not been called.
NoFix == [called |-> 0, data_type |-> "none", arg |-> <<>>, df |-> <<>>]

\* No frame is being validated.
ValidIdle ==
    /\ ohlc_df = <<>>
    /\ validator = "none"
    /\ validation_result = NoResult
    /\ fixed_df = NoFix

NoFrame == [given |-> FALSE, df |-> <<>>]

\* No fetch_ohlc_data call is under way.
AsyncIdle ==
    /\ ohlc_pc = "idle"
    /\ batch_results = <<>>
    /\ cache_set = NoFrame
    /\ returned_df = NoFrame

\* No call of a function decorated with retry is under way.
RetryIdle ==
    /\ retry_pc = "idle"
    /\ wrapped = "none"
    /\ responses = <<>>
    /\ attempt = 0
    /\ requests_sent = 0
    /\ throttle_reports = 0
    /\ backoff_delays = <<>>
    /\ request_result = "none"
    /\ delay = 0
    /\ last_exception = 0
    /\ caller_exception = 0
    /\ slept = 0
    /\ request_times = <<>>
    /\ admitted = 0

\* No trade fetch is under way.
PageIdle ==
    /\ pager = "none"
    /\ market = <<>>
    /\ trade_range = <<0, 0>>
    /\ page_limit = 0
    /\ page_pc = "idle"
    /\ from_id = 0
    /\ page_requests = <<>>
    /\ pages = <<>>
    /\ all_trades = <<>>

\* aggregate_to_minute_bars has not been called.
BarsIdle ==
    /\ trades_df = <<>>
    /\ minute_bars = NoFrame

\* No cache call has raised and nothing of the pipeline is under way.
PipelineInit ==
    /\ raised = FALSE
    /\ SyncIdle
    /\ SplitIdle
    /\ ValidIdle
    /\ AsyncIdle
    /\ PageIdle
    /\ RetryIdle
    /\ BarsIdle

\* ------------------------------------------------------------ RateLimiter

\* __init__: the bucket starts full at the nominal capacity.
LimiterInit(capacities) ==
    /\ now = 0
    /\ max_tokens \in capacities
    /\ max_concurrent_requests \in 1..MaxConcurrent
    /\ tokens = max_tokens * TOKEN
    /\ refill_rate = max_tokens
    /\ last_refill = 0
    /\ current_limit = max_tokens
    /\ recent_limits = <<>>
    /\ semaphore = max_concurrent_requests
    /\ lock = NoTask
    /\ pc = [t \in Tasks |-> "idle"]
    /\ wake = [t \in Tasks |-> 0]

\* _refill_tokens, lines 75-80: the amount after adding elapsed * refill_rate,
\* clipped at the effective capacity.
Refilled(tk, elapsed) == Min(current_limit * TOKEN, tk + elapsed * refill_rate)

\* wait_if_needed, lines 103-107: seconds to sleep for the missing part of a
\* token, capped; rounded up to the next instant of the clock.
WaitTime(tk) == Min(CeilDiv(TOKEN - tk, refill_rate), MAX_WAIT)

\* _adjust_rate_limit without the floor of line 150.
ReducedLimitNoFloor(cl, mx) == (cl * 9) \div 10

\* _adjust_rate_limit, lines 149-150.
ReducedLimit(cl, mx) == Max((cl * 9) \div 10, mx \div 2)

\* record_success, lines 174-177.
RecoveredLimit(cl, mx) == Min((cl * 105) \div 100, mx)

\* record_rate_limit, lines 132-138: append now, keep the last 5 minutes.
RecentAfterReport(rl, t) == SelectSeq(Append(rl, t), LAMBDA s : t - s < WINDOW)

\* record_rate_limit with _adjust_rate_limit (lines 126-161).
record_rate_limit ==
    LET kept == RecentAfterReport(recent_limits, now) IN
    /\ recent_limits' = kept
    /\ IF Len(kept) >= MIN_RECENT
       THEN /\ current_limit' = ReducedLimit(current_limit, max_tokens)
            /\ refill_rate' = ReducedLimit(current_limit, max_tokens)
       ELSE UNCHANGED <<current_limit, refill_rate>>

\* record_success (lines 163-181).
record_success ==
    LET recent == SelectSeq(recent_limits, LAMBDA s : now - s < WINDOW) IN
    IF Len(recent) = 0 /\ current_limit < max_tokens
    THEN /\ current_limit' = RecoveredLimit(current_limit, max_tokens)
         /\ refill_rate' = IF RecoveredLimit(current_limit, max_tokens) # current_limit
                           THEN RecoveredLimit(current_limit, max_tokens)
                           ELSE refill_rate
    ELSE UNCHANGED <<current_limit, refill_rate>>

\* The critical section of wait_if_needed (lines 94-116) entered by caller t
\* that holds the lock and leaves `permits` free permits.  It runs without
\* suspension up to the return of line 100 (after which make_request issues
\* the request, fetcher.py line 146), to the ZeroDivisionError of line 104,
\* or to the sleep of line 116, which keeps lock and permit.
\* Spec follows the token accounting of lines 96-124: here the acquisition
\* of self.lock inside _refill_tokens (line 74) is granted to the caller that
\* already holds it.  What asyncio.Lock does at line 74 is modelled by
\* LockedCall and LockFairSpec below.
Admit(t, permits) ==
    LET tk == Refilled(tokens, now - last_refill) IN
    /\ last_refill' = now
    /\ IF tk >= TOKEN
       THEN /\ tokens' = tk - TOKEN
            /\ semaphore' = permits + 1
            /\ lock' = NoTask
            /\ pc' = [pc EXCEPT ![t] = "in_flight"]
            /\ UNCHANGED wake
       ELSE IF refill_rate = 0
       THEN /\ tokens' = tk
            /\ semaphore' = permits + 1
            /\ lock' = NoTask
            /\ pc' = [pc EXCEPT ![t] = "idle"]
            /\ UNCHANGED wake
       ELSE /\ tokens' = tk
            /\ semaphore' = permits
            /\ lock' = t
            /\ pc' = [pc EXCEPT ![t] = "sleeping"]
            /\ wake' = [wake EXCEPT ![t] = now + WaitTime(tk)]

\* make_request (fetcher.py 129-143) calling wait_if_needed (84-94): take a
\* permit and the lock when they are free, suspend otherwise.
MakeRequest(t) ==
    /\ pc[t] = "idle"
    /\ IF semaphore = 0
       THEN /\ pc' = [pc EXCEPT ![t] = "wait_semaphore"]
            /\ UNCHANGED <<tokens, last_refill, semaphore, lock, wake>>
       ELSE IF lock # NoTask
       THEN /\ pc' = [pc EXCEPT ![t] = "wait_lock"]
            /\ semaphore' = semaphore - 1
            /\ UNCHANGED <<tokens, last_refill, lock, wake>>
       ELSE Admit(t, semaphore - 1)
    /\ UNCHANGED <<now, max_tokens, max_concurrent_requests, refill_rate,
                   current_limit, recent_limits>>
    /\ UNCHANGED <<cacheVars, pipelineVars>>

\* A caller suspended in `async with self.semaphore` resumes.
AcquireSemaphore(t) ==
    /\ pc[t] = "wait_semaphore"
    /\ semaphore > 0
    /\ IF lock # NoTask
       THEN /\ pc' = [pc EXCEPT ![t] = "wait_lock"]
            /\ semaphore' = semaphore - 1
            /\ UNCHANGED <<tokens, last_refill, lock, wake>>
       ELSE Admit(t, semaphore - 1)
    /\ UNCHANGED <<now, max_tokens, max_concurrent_requests, refill_rate,
                   current_limit, recent_limits>>
    /\ UNCHANGED <<cacheVars, pipelineVars>>

\* A caller suspended in `async with self.lock` (line 92) resumes.
AcquireLock(t) ==
    /\ pc[t] = "wait_lock"
    /\ lock = NoTask
    /\ Admit(t, semaphore)
    /\ UNCHANGED <<now, max_tokens, max_concurrent_requests, refill_rate,
                   current_limit, recent_limits>>
    /\ UNCHANGED <<cacheVars, pipelineVars>>

\* wait_if_needed, lines 119-124: after the sleep, refill, consume a token
\* unconditionally and return; make_request then issues the request.
WakeUp(t) ==
    /\ pc[t] = "sleeping"
    /\ now >= wake[t]
    /\ tokens' = Refilled(tokens, now - last_refill) - TOKEN
    /\ last_refill' = now
    /\ semaphore' = semaphore + 1
    /\ lock' = NoTask
    /\ pc' = [pc EXCEPT ![t] = "in_flight"]
    /\ wake' = [wake EXCEPT ![t] = 0]
    /\ UNCHANGED <<now, max_tokens, max_concurrent_requests, refill_rate,
                   current_limit, recent_limits>>
    /\ UNCHANGED <<cacheVars, pipelineVars>>

\* make_request, lines 146-169: the response of the request in flight.
\* 429 reports the throttle and sleeps Retry-After; any other status returns
\* or raises, which ends the call.
Response(t, status) ==
    /\ pc[t] = "in_flight"
    /\ IF status = 429
       THEN /\ Len(RecentAfterReport(recent_limits, now)) <= MaxRecent
            /\ record_rate_limit
            /\ pc' = [pc EXCEPT ![t] = "retry_after"]
            /\ wake' = [wake EXCEPT ![t] = now + RETRY_AFTER]
       ELSE /\ pc' = [pc EXCEPT ![t] = "idle"]
            /\ UNCHANGED <<current_limit, refill_rate, recent_limits, wake>>
    /\ UNCHANGED <<now, max_tokens, max_concurrent_requests, tokens, last_refill,
                   semaphore, lock>>
    /\ UNCHANGED <<cacheVars, pipelineVars>>

\* make_request, lines 156-157 and 171-175: the Retry-After sleep is over
\* and the call raises.
RetryAfterElapsed(t) ==
    /\ pc[t] = "retry_after"
    /\ now >= wake[t]
    /\ pc' = [pc EXCEPT ![t] = "idle"]
    /\ wake' = [wake EXCEPT ![t] = 0]
    /\ UNCHANGED <<now, max_tokens, max_concurrent_requests, tokens, refill_rate,
                   last_refill, current_limit, recent_limits, semaphore, lock>>
    /\ UNCHANGED <<cacheVars, pipelineVars>>

\* record_rate_limit called on the limiter.
RecordRateLimit ==
    /\ Len(RecentAfterReport(recent_limits, now)) <= MaxRecent
    /\ record_rate_limit
    /\ UNCHANGED <<now, max_tokens, max_concurrent_requests, tokens, last_refill,
                   semaphore, lock, pc, wake>>
    /\ UNCHANGED <<cacheVars, pipelineVars>>

\* record_success called on the limiter.
RecordSuccess ==
    /\ record_success
    /\ UNCHANGED <<now, max_tokens, max_concurrent_requests, tokens, last_refill,
                   recent_limits, semaphore, lock, pc, wake>>
    /\ UNCHANGED <<cacheVars, pipelineVars>>

\* A second passes.
Tick ==
    /\ now < MaxClock
    /\ now' = now + 1
    /\ UNCHANGED <<max_tokens, max_concurrent_requests, tokens, refill_rate,
                   last_refill, current_limit, recent_limits, semaphore, lock, pc, wake>>
    /\ UNCHANGED <<cacheVars, pipelineVars>>

\* ----------------------------------------------------------- CacheManager
\* Datetimes are UTC instants counted in slots of one minute; a day is
\* shortened to SlotsPerDay slots.  One symbol and one interval are cached,
\* so a path is told by its data type and the formatted times.

\* strftime('%Y%m%d') of _get_cache_path, line 48.
DayOf(dt) == dt \div SlotsPerDay

\* strftime('%Y%m%d_%H%M') of _get_cache_path, line 53.
MinuteOf(dt) == dt

\* _get_cache_path (lines 29-58): the file name keeps the dates of an OHLC
\* range and the minute of a candle.
CachePath(data_type, start_time, end_time) ==
    IF data_type = "ohlc"
    THEN <<"ohlc", DayOf(start_time), DayOf(end_time)>>
    ELSE <<"trades", MinuteOf(start_time)>>

DateTimes == 0..MaxSlot
Ranges == {r \in DateTimes \X DateTimes : r[1] <= r[2]}
Candles == 0..MaxCandle
LruCandles == 0..MaxLruCandle
Payloads == 1..MaxPayload
Versions == 1..MaxVersion
Paths == {CachePath("ohlc", r[1], r[2]) : r \in Ranges}
            \cup {CachePath("trades", c, c) : c \in Candles \cup LruCandles}

NoFile == 0
NoMeta == [exists |-> FALSE, start_time |-> 0, end_time |-> 0,
           cache_version |-> 0, cached_at |-> 0]
NoCall == [op |-> "none", start_time |-> 0, end_time |-> 0, at |-> 0, df |-> NoFile,
           hit |-> FALSE, tier |-> "none", meta |-> NoMeta]

\* __init__ (lines 12-18) over an empty cache directory.
CacheInit ==
    /\ cache_version = 1
    /\ files = [p \in Paths |-> NoFile]
    /\ sidecar = [p \in Paths |-> NoMeta]
    /\ written_by = [p \in Paths |-> NoMeta]
    /\ memory_cache = <<>>
    /\ last_call = NoCall
    /\ access_order = <<>>

\* `key in self._memory_cache`.
InMemory(mc, key) == \E i \in 1..Len(mc) : mc[i].key = key

MemoryEntry(mc, key) == mc[CHOOSE i \in 1..Len(mc) : mc[i].key = key]

Without(mc, key) == SelectSeq(mc, LAMBDA e : e.key # key)

\* popitem() with its default last=True: the newest entry leaves.
EvictedNewest(mc) == SubSeq(mc, 1, Len(mc) - 1)

\* popitem(last=False), line 69: the oldest entry leaves.
Evicted(mc) == Tail(mc)

\* _add_to_memory_cache (lines 60-69).
AddToMemoryCache(mc, entry) ==
    LET added == Append(Without(mc, entry.key), entry) IN
    IF Len(added) > MaxCacheSize THEN Evicted(added) ELSE added

\* _get_from_memory_cache on a hit (lines 73-77): the entry moves to the end.
GetFromMemoryCache(mc, key) == Append(Without(mc, key), MemoryEntry(mc, key))

\* The metadata written by save_ohlc (lines 87-95); save_trades (153-159)
\* writes candle_time, kept here in both time fields.
Metadata(start_time, end_time) ==
    [exists |-> TRUE, start_time |-> start_time, end_time |-> end_time,
     cache_version |-> cache_version, cached_at |-> now]

\* load_ohlc, lines 117-137: the checks a file passes before it is read.
OhlcFileValid(path, start_time, end_time) ==
    /\ files[path] # NoFile
    /\ sidecar[path].exists
    /\ sidecar[path].cache_version = cache_version
    /\ ~(sidecar[path].start_time > start_time \/ sidecar[path].end_time < end_time)

\* load_trades, lines 180-193.
TradesFileValid(path) ==
    /\ files[path] # NoFile
    /\ sidecar[path].exists
    /\ sidecar[path].cache_version = cache_version

\* save_ohlc (lines 80-103) and save_trades (147-167): payload file and
\* sidecar are written; the memory tier is not touched.
save(op, path, df, start_time, end_time) ==
    /\ files' = [files EXCEPT ![path] = df]
    /\ sidecar' = [sidecar EXCEPT ![path] = Metadata(start_time, end_time)]
    /\ written_by' = [written_by EXCEPT ![path] = Metadata(start_time, end_time)]
    /\ last_call' = [op |-> op, start_time |-> start_time, end_time |-> end_time, at |-> now,
                     df |-> df, hit |-> FALSE, tier |-> "none", meta |-> NoMeta]
    /\ UNCHANGED <<cache_version, memory_cache>>

\* load_ohlc (lines 105-145) and load_trades (169-201): the memory tier is
\* asked first and answers without any check; a valid file is read and added
\* to the memory tier; anything else is a miss.  `meta` records the sidecar of
\* the entry a payload was read from.
load(op, path, valid, start_time, end_time) ==
    /\ IF InMemory(memory_cache, path)
       THEN /\ memory_cache' = GetFromMemoryCache(memory_cache, path)
            /\ last_call' = [op |-> op, start_time |-> start_time, end_time |-> end_time, at |-> now,
                             df |-> MemoryEntry(memory_cache, path).df, hit |-> TRUE,
                             tier |-> "memory",
                             meta |-> MemoryEntry(memory_cache, path).meta]
       ELSE IF valid
       THEN /\ memory_cache' = AddToMemoryCache(memory_cache,
                                  [key |-> path, df |-> files[path], meta |-> sidecar[path]])
            /\ last_call' = [op |-> op, start_time |-> start_time, end_time |-> end_time, at |-> now,
                             df |-> files[path], hit |-> TRUE, tier |-> "disk",
                             meta |-> sidecar[path]]
       ELSE /\ UNCHANGED memory_cache
            /\ last_call' = [op |-> op, start_time |-> start_time, end_time |-> end_time, at |-> now,
                             df |-> NoFile, hit |-> FALSE, tier |-> "none", meta |-> NoMeta]
    /\ UNCHANGED <<cache_version, files, sidecar, written_by>>

save_ohlc(df, start_time, end_time) ==
    save("save_ohlc", CachePath("ohlc", start_time, end_time), df, start_time, end_time)

load_ohlc(start_time, end_time) ==
    load("load_ohlc", CachePath("ohlc", start_time, end_time),
         OhlcFileValid(CachePath("ohlc", start_time, end_time), start_time, end_time),
         start_time, end_time)

save_trades(df, candle_time) ==
    save("save_trades", CachePath("trades", candle_time, candle_time), df,
         candle_time, candle_time)

load_trades(candle_time) ==
    load("load_trades", CachePath("trades", candle_time, candle_time),
         TradesFileValid(CachePath("trades", candle_time, candle_time)),
         candle_time, candle_time)

SaveOhlc(df, start_time, end_time) ==
    /\ save_ohlc(df, start_time, end_time)
    /\ UNCHANGED <<now, bucketVars, access_order, pipelineVars>>

LoadOhlc(start_time, end_time) ==
    /\ load_ohlc(start_time, end_time)
    /\ UNCHANGED <<now, bucketVars, access_order, pipelineVars>>

SaveTrades(df, candle_time) ==
    /\ save_trades(df, candle_time)
    /\ UNCHANGED <<now, bucketVars, access_order, pipelineVars>>

LoadTrades(candle_time) ==
    /\ load_trades(candle_time)
    /\ UNCHANGED <<now, bucketVars, access_order, pipelineVars>>

\* The process ends and a new one starts, possibly with another schema
\* version: the memory tier is empty again, the cache directory stays.
Restart(version) ==
    /\ cache_version' = version
    /\ memory_cache' = <<>>
    /\ last_call' = NoCall
    /\ UNCHANGED <<files, sidecar, written_by, access_order, now, bucketVars, pipelineVars>>

\* A slot of time passes.
CacheTick ==
    /\ now < MaxCacheClock
    /\ now' = now + 1
    /\ UNCHANGED <<bucketVars, cacheVars, pipelineVars>>

CacheSpecInit == LimiterInit({1}) /\ max_concurrent_requests = 1 /\ CacheInit /\ PipelineInit

CacheNext ==
    \/ \E df \in Payloads, r \in Ranges : SaveOhlc(df, r[1], r[2])
    \/ \E r \in Ranges : LoadOhlc(r[1], r[2])
    \/ \E df \in Payloads, c \in Candles : SaveTrades(df, c)
    \/ \E c \in Candles : LoadTrades(c)
    \/ \E v \in Versions : Restart(v)
    \/ CacheTick

CacheSpec == CacheSpecInit /\ [][CacheNext]_vars

\* ---------------------------------------------------- the memory tier alone
\* Trades of several candles are saved and loaded within one process;
\* access_order records every insert into and every hit in the memory tier.
Touch(order, key) == Append(SelectSeq(order, LAMBDA k : k # key), key)

LruSave(candle_time) ==
    /\ save_trades(1, candle_time)
    /\ UNCHANGED <<now, bucketVars, access_order, pipelineVars>>

LruLoad(candle_time) ==
    /\ load_trades(candle_time)
    /\ access_order' = IF last_call'.hit
                       THEN Touch(access_order, CachePath("trades", candle_time, candle_time))
                       ELSE access_order
    /\ UNCHANGED <<now, bucketVars, pipelineVars>>

LruNext ==
    \/ \E c \in LruCandles : LruSave(c)
    \/ \E c \in LruCandles : LruLoad(c)

LruSpec == CacheSpecInit /\ [][LruNext]_vars

\* ------------------------------------- fetch_complete_dataset (binance_fetcher.py)
\* The synchronous fetcher runs one statement after the other; each action
\* below is one call of the cache or of the API.  The API answers a klines
\* request for (start_time, end_time) with one candle per slot of the range,
\* and a trades request with one batch, which is empty for the candles of
\* no_trades.  A call of _make_request sends up to MAX_ATTEMPTS requests.

Attempts == 1..MAX_ATTEMPTS

\* save_ohlc and save_trades when a write fails: `fault` names the statement
\* that raises, df.to_parquet ("payload", lines 98 and 162) or to_json
\* ("sidecar", lines 99 and 163).  The except clause logs and raises again
\* (lines 101-103 and 165-167).
saveFails(op, path, df, start_time, end_time, fault) ==
    /\ files' = IF fault = "sidecar" THEN [files EXCEPT ![path] = df] ELSE files
    /\ written_by' = IF fault = "sidecar"
                      THEN [written_by EXCEPT ![path] = Metadata(start_time, end_time)]
                      ELSE written_by
    /\ last_call' = [op |-> op, start_time |-> start_time, end_time |-> end_time, at |-> now,
                     df |-> df, hit |-> FALSE, tier |-> "none", meta |-> NoMeta]
    /\ raised' = TRUE
    /\ UNCHANGED <<cache_version, sidecar, memory_cache>>

\* load_ohlc and load_trades when reading the sidecar or the payload fails:
\* the except clause logs and returns None (lines 143-145 and 199-201).
loadFails(op, path, start_time, end_time) ==
    /\ ~InMemory(memory_cache, path)
    /\ files[path] # NoFile
    /\ last_call' = [op |-> op, start_time |-> start_time, end_time |-> end_time, at |-> now,
                     df |-> NoFile, hit |-> FALSE, tier |-> "none", meta |-> NoMeta]
    /\ UNCHANGED <<cache_version, files, sidecar, written_by, memory_cache, raised>>

\* Lines 150-170 and 185: the call starts, asks the cache for the candles and
\* on a hit goes on to the trades of the first candle.
EnterFetch(r) ==
    /\ fetch_pc \in {"idle", "returned"}
    /\ fetch_call < MaxCalls
    /\ fetch_call > 0 => r = fetch_range
    /\ fetch_range' = r
    /\ fetch_call' = fetch_call + 1
    /\ fetch_requests' = 0
    /\ candle' = r[1]
    /\ fetch_pc' = IF last_call'.hit THEN "candles" ELSE "fetch_ohlc_batch"
    /\ UNCHANGED <<no_trades, syncFrame>>

FetchCompleteDataset(r) ==
    /\ load_ohlc(r[1], r[2])
    /\ EnterFetch(r)
    /\ UNCHANGED raised

FetchCompleteDatasetReadFails(r) ==
    /\ loadFails("load_ohlc", CachePath("ohlc", r[1], r[2]), r[1], r[2])
    /\ EnterFetch(r)

\* Lines 172-177: fetch_ohlc_batch through _make_request; the validation
\* result is printed only.  When every attempt fails the call raises.
FetchOhlcBatch(attempts, ok) ==
    /\ fetch_pc = "fetch_ohlc_batch"
    /\ ~ok => attempts = MAX_ATTEMPTS
    /\ fetch_requests' = fetch_requests + attempts
    /\ fetch_pc' = IF ok THEN "save_ohlc" ELSE "failed"
    /\ UNCHANGED <<fetch_range, fetch_call, candle, no_trades, raised, cacheVars, syncFrame>>

\* Line 180.
FetchSaveOhlc ==
    /\ fetch_pc = "save_ohlc"
    /\ save_ohlc(1, fetch_range[1], fetch_range[2])
    /\ fetch_pc' = "candles"
    /\ UNCHANGED <<fetch_range, fetch_call, fetch_requests, candle, no_trades, raised,
                   syncFrame>>

FetchSaveOhlcFails(fault) ==
    /\ fetch_pc = "save_ohlc"
    /\ saveFails("save_ohlc", CachePath("ohlc", fetch_range[1], fetch_range[2]), 1,
                 fetch_range[1], fetch_range[2], fault)
    /\ fetch_pc' = "failed"
    /\ UNCHANGED <<fetch_range, fetch_call, fetch_requests, candle, no_trades,
                   syncFrame>>

\* After load_trades of process_candle_trades (lines 106-109): a hit ends
\* the candle.
AfterLoadTrades ==
    /\ fetch_pc = "candles"
    /\ candle <= fetch_range[2]
    /\ IF last_call'.hit
       THEN candle' = candle + 1 /\ UNCHANGED fetch_pc
       ELSE fetch_pc' = "fetch_trades_batch" /\ UNCHANGED candle
    /\ UNCHANGED <<fetch_range, fetch_call, fetch_requests, no_trades, syncFrame>>

ProcessCandleTrades ==
    /\ load_trades(candle)
    /\ AfterLoadTrades
    /\ UNCHANGED raised

ProcessCandleTradesReadFails ==
    /\ loadFails("load_trades", CachePath("trades", candle, candle), candle, candle)
    /\ AfterLoadTrades

\* Lines 115-143: the batch of the candle; an empty batch ends the candle with
\* an empty frame and nothing is saved (lines 118-119 and 131-132).
FetchTradesBatch(attempts, ok) ==
    /\ fetch_pc = "fetch_trades_batch"
    /\ ~ok => attempts = MAX_ATTEMPTS
    /\ fetch_requests' = fetch_requests + attempts
    /\ IF ~ok
       THEN fetch_pc' = "failed" /\ UNCHANGED candle
       ELSE IF candle \in no_trades
       THEN fetch_pc' = "candles" /\ candle' = candle + 1
       ELSE fetch_pc' = "save_trades" /\ UNCHANGED candle
    /\ UNCHANGED <<fetch_range, fetch_call, no_trades, raised, cacheVars, syncFrame>>

\* Lines 146-148.
FetchSaveTrades ==
    /\ fetch_pc = "save_trades"
    /\ save_trades(1, candle)
    /\ fetch_pc' = "candles"
    /\ candle' = candle + 1
    /\ UNCHANGED <<fetch_range, fetch_call, fetch_requests, no_trades, raised,
                   syncFrame>>

FetchSaveTradesFails(fault) ==
    /\ fetch_pc = "save_trades"
    /\ saveFails("save_trades", CachePath("trades", candle, candle), 1, candle, candle, fault)
    /\ fetch_pc' = "failed"
    /\ UNCHANGED <<fetch_range, fetch_call, fetch_requests, candle, no_trades,
                   syncFrame>>

\* Lines 203-212: every candle is done and the dataset is returned.
FetchReturns ==
    /\ fetch_pc = "candles"
    /\ candle > fetch_range[2]
    /\ fetch_pc' = "returned"
    /\ UNCHANGED <<fetch_range, fetch_call, fetch_requests, candle, no_trades, raised,
                   cacheVars, syncFrame>>

FetchInit ==
    /\ LimiterInit({1}) /\ max_concurrent_requests = 1
    /\ CacheInit
    /\ raised = FALSE
    /\ fetch_pc = "idle"
    /\ fetch_range = <<0, 0>>
    /\ fetch_call = 0
    /\ fetch_requests = 0
    /\ candle = 0
    /\ no_trades \in SUBSET DateTimes
    /\ SplitIdle
    /\ ValidIdle
    /\ AsyncIdle
    /\ PageIdle
    /\ RetryIdle
    /\ BarsIdle

FetchNext ==
    \/ \E r \in Ranges : FetchCompleteDataset(r)
    \/ \E attempts \in Attempts, ok \in BOOLEAN : FetchOhlcBatch(attempts, ok)
    \/ FetchSaveOhlc
    \/ ProcessCandleTrades
    \/ \E attempts \in Attempts, ok \in BOOLEAN : FetchTradesBatch(attempts, ok)
    \/ FetchSaveTrades
    \/ FetchReturns

FetchSpec == FetchInit /\ [][FetchNext]_vars

\* fetch_complete_dataset over a disk whose reads and writes may fail.
Faults == {"payload", "sidecar"}

FaultNext ==
    \/ FetchNext
    \/ \E r \in Ranges : FetchCompleteDatasetReadFails(r)
    \/ \E fault \in Faults : FetchSaveOhlcFails(fault)
    \/ ProcessCandleTradesReadFails
    \/ \E fault \in Faults : FetchSaveTradesFails(fault)

FaultSpec == FetchInit /\ [][FaultNext]_vars

\* ------------------------------------------------------------ range splits
\* fetch_ohlc_data (fetcher.py 205-221) counts time in minutes.
\* chunk_date_range (utils.py 153-197) takes datetimes; its instants are
\* counted in ticks, with a shortened minute, hour and day.

MINUTE == TicksPerMinute
HOUR == MinutesPerHour * MINUTE
DAY == HoursPerDay * HOUR

SplitTimes == 0..MaxSplitTime
\* Values of INTERVAL_MAP, in minutes.
Intervals == {1, 3}
ChunkSizes == {1, MINUTE, HOUR, DAY}

\* fetch_ohlc_data, lines 206-212: batch_duration, in minutes.
BatchDuration(start_time, end_time, interval_minutes, max_batch_size) ==
    LET total_minutes == end_time - start_time
        total_candles == total_minutes \div interval_minutes
        batch_size == Min(max_batch_size, total_candles)
    IN  batch_size * interval_minutes

\* datetime.replace of chunk_date_range, lines 184-190: the fields below the
\* boundary are set to zero.
Truncated(t, boundary) == (t \div boundary) * boundary

\* chunk_date_range, lines 178-190: the first current_start.
AlignedStart(start_time, chunk_size, align_to_boundary) ==
    IF ~align_to_boundary THEN start_time
    ELSE IF chunk_size >= DAY THEN Truncated(start_time, DAY)
    ELSE IF chunk_size >= HOUR THEN Truncated(start_time, HOUR)
    ELSE Truncated(start_time, MINUTE)

\* The arguments of a split and what the code computes before its loop:
\* `step` is batch_duration or chunk_size, `first` the first current_start.
OhlcSplits ==
    {[fn |-> "fetch_ohlc_data", start_time |-> s, end_time |-> e,
      step |-> BatchDuration(s, e, i, m), first |-> s, span |-> m * i] :
        s \in SplitTimes, e \in SplitTimes, i \in Intervals, m \in 1..MaxBatchSize}

ChunkSplits ==
    {[fn |-> "chunk_date_range", start_time |-> s, end_time |-> e,
      step |-> c, first |-> AlignedStart(s, c, a), span |-> c] :
        s \in SplitTimes, e \in SplitTimes, c \in ChunkSizes, a \in BOOLEAN}

\* The loop is entered for start_time < end_time (the claim's ranges;
\* chunk_date_range raises otherwise, lines 171-172).
SplitInit ==
    /\ LimiterInit({1}) /\ max_concurrent_requests = 1
    /\ CacheInit
    /\ raised = FALSE
    /\ SyncIdle
    /\ split_args \in {a \in OhlcSplits \cup ChunkSplits : a.start_time < a.end_time}
    /\ split_pc = "loop"
    /\ current_start = split_args.first
    /\ batches = <<>>
    /\ ValidIdle
    /\ AsyncIdle
    /\ PageIdle
    /\ RetryIdle
    /\ BarsIdle

\* One turn of `while current_start < end_time` (fetcher.py 218-221,
\* utils.py 192-195).
SplitStep ==
    /\ split_pc = "loop"
    /\ current_start < split_args.end_time
    /\ Len(batches) < MaxBatches
    /\ LET current_end == Min(current_start + split_args.step, split_args.end_time) IN
       /\ batches' = Append(batches, <<current_start, current_end>>)
       /\ current_start' = current_end
    /\ UNCHANGED <<split_args, split_pc, splitFrame>>

\* The loop ends.
SplitDone ==
    /\ split_pc = "loop"
    /\ current_start >= split_args.end_time
    /\ split_pc' = "done"
    /\ UNCHANGED <<split_args, current_start, batches, splitFrame>>

SplitNext == SplitStep \/ SplitDone

SplitSpec == SplitInit /\ [][SplitNext]_vars

\* ------------------------------------------- validate_ohlc, validate_trades
\* A candle frame is the sequence of its rows.  A row keeps timestamp (counted
\* in candle intervals), open, high, low and close; the frame has every
\* required column, no missing value, positive open and close and a volume
\* that triggers no check.  metrics is the set of its <<key, value>> pairs;
\* issues and warnings are the sets of the checks that appended a message to
\* them.  The result of validators.py also has the list errors, which holds
\* the messages of the checks that clear valid, and a score, kept here in
\* hundredths; its list issues is never appended to.  The dict of
\* data_validator.py has no warnings, no errors and no score.

Prices == (-1)..MaxPrice
Rows ==
    [timestamp : 0..MaxStamp, open : 1..MaxPrice, high : Prices, low : Prices,
     close : 1..MaxPrice]
Frames == UNION {[1..n -> Rows] : n \in 0..MaxRows}

\* The rows of a frame that fail a check: (df['high'] < df['low']).sum() and
\* (df[col] < 0).sum() for the columns high and low.
HighBelowLow(df) == Cardinality({i \in 1..Len(df) : df[i].high < df[i].low})
NegativeHigh(df) == Cardinality({i \in 1..Len(df) : df[i].high < 0})
NegativeLow(df) == Cardinality({i \in 1..Len(df) : df[i].low < 0})

\* Series.duplicated(): row i repeats the timestamp of an earlier row.
IsDuplicate(df, i) == \E j \in 1..(i - 1) : df[j].timestamp = df[i].timestamp

\* time_diffs of the frame sorted by timestamp that exceed 1.5 intervals.
Gaps(df) ==
    LET stamps == {df[i].timestamp : i \in 1..Len(df)} IN
    Cardinality({t \in stamps :
        /\ \E u \in stamps : u > t
        /\ \A u \in stamps : u > t => u - t >= 2})

\* Rows with abs((close - open) / open) > max_volatility_threshold, which is
\* 0.5 in both validators.
ExtremeVolatility(df) ==
    Cardinality({i \in 1..Len(df) :
        LET change == df[i].close - df[i].open IN
        2 * (IF change < 0 THEN -change ELSE change) > df[i].open})

\* A metrics entry that is written only when its count is positive.
Entry(key, n) == IF n > 0 THEN {<<key, n>>} ELSE {}

\* The name of a check, when it found something.
Found(key, n) == IF n > 0 THEN {key} ELSE {}

\* validators.py, _calculate_score (lines 304-316), in hundredths: errors and
\* warnings are the messages of the result.
calculate_score(errors, warnings) ==
    Max(0, 100 - (IF errors # {} THEN Min(50, Cardinality(errors) * 10) ELSE 0)
               - (IF warnings # {} THEN Min(30, Cardinality(warnings) * 5) ELSE 0))

\* The score a result is constructed with (lines 83 and 185).
INITIAL_SCORE == 100

\* validators.py, DataValidator.validate_ohlc (lines 65-166).  The result for
\* an empty frame is returned at line 90, before the score is calculated.
validators_validate_ohlc(df) ==
    LET errors == Found("negative_high", NegativeHigh(df))
                  \cup Found("negative_low", NegativeLow(df))
                  \cup Found("invalid_high_low", HighBelowLow(df))
        warnings == Found("extreme_volatility", ExtremeVolatility(df))
                    \cup (IF Len(df) > 1 THEN Found("time_gaps", Gaps(df)) ELSE {})
    IN
    IF Len(df) = 0
    THEN [fn |-> "validate_ohlc", valid |-> FALSE, issues |-> {}, warnings |-> {},
          metrics |-> {}, returned |-> TRUE, errors |-> {"empty"},
          score |-> INITIAL_SCORE]
    ELSE [fn |-> "validate_ohlc",
          valid |-> /\ NegativeHigh(df) = 0
                    /\ NegativeLow(df) = 0
                    /\ HighBelowLow(df) = 0,
          issues |-> {},
          errors |-> errors,
          score |-> calculate_score(errors, warnings),
          warnings |-> Found("extreme_volatility", ExtremeVolatility(df))
                       \cup (IF Len(df) > 1 THEN Found("time_gaps", Gaps(df)) ELSE {}),
          metrics |-> Entry("negative_high", NegativeHigh(df))
                      \cup Entry("negative_low", NegativeLow(df))
                      \cup Entry("invalid_high_low", HighBelowLow(df))
                      \cup Entry("extreme_volatility", ExtremeVolatility(df))
                      \cup (IF Len(df) > 1 THEN Entry("time_gaps", Gaps(df)) ELSE {}),
          returned |-> TRUE]

\* data_validator.py, DataValidator.validate_ohlc (lines 12-98).
data_validator_validate_ohlc(df) ==
    LET duplicates == Cardinality({i \in 1..Len(df) : IsDuplicate(df, i)}) IN
    LET issues == Found("duplicate_timestamps", duplicates)
                  \cup Found("negative_high", NegativeHigh(df))
                  \cup Found("negative_low", NegativeLow(df))
                  \cup Found("invalid_high_low", HighBelowLow(df))
                  \cup Found("extreme_volatility", ExtremeVolatility(df))
                  \cup (IF Len(df) > 1 THEN Found("time_gaps", Gaps(df)) ELSE {}) IN
    [fn |-> "validate_ohlc",
     valid |-> issues = {},
     issues |-> issues,
     warnings |-> {},
     metrics |-> Entry("duplicate_timestamps", duplicates)
                 \cup Entry("negative_high_count", NegativeHigh(df))
                 \cup Entry("negative_low_count", NegativeLow(df))
                 \cup Entry("invalid_high_low_count", HighBelowLow(df))
                 \cup Entry("extreme_volatility_count", ExtremeVolatility(df))
                 \cup (IF Len(df) > 1 THEN {<<"time_gaps", Gaps(df)>>} ELSE {}),
     returned |-> TRUE]

validate_ohlc(module, df) ==
    IF module = "validators" THEN validators_validate_ohlc(df)
    ELSE data_validator_validate_ohlc(df)

\* A frame of trades for validate_trades: a row keeps id and price; the frame
\* has every required column, no missing value, positive quantities and no
\* two rows of equal timestamp and price.
IdRows == [id : 1..MaxTradeId, price : 0..MaxTradePrice]
IdFrames == UNION {[1..n -> IdRows] : n \in 0..MaxTrades}

NonPositivePrice(df) == Cardinality({i \in 1..Len(df) : df[i].price <= 0})

\* id_diffs of the frame sorted by id that exceed 1.
IdGaps(df) ==
    LET ids == {df[i].id : i \in 1..Len(df)} IN
    Cardinality({t \in ids :
        /\ \E u \in ids : u > t
        /\ \A u \in ids : u > t => u - t > 1})

\* validators.py, DataValidator.validate_trades (lines 168-261): the ids are
\* not looked at.
validators_validate_trades(df) ==
    IF Len(df) = 0
    THEN [fn |-> "validate_trades", valid |-> FALSE, issues |-> {}, warnings |-> {},
          metrics |-> {}, returned |-> TRUE, errors |-> {"empty"},
          score |-> INITIAL_SCORE]
    ELSE [fn |-> "validate_trades",
          valid |-> NonPositivePrice(df) = 0,
          issues |-> {},
          errors |-> Found("non_positive_prices", NonPositivePrice(df)),
          score |-> calculate_score(Found("non_positive_prices", NonPositivePrice(df)), {}),
          warnings |-> {},
          metrics |-> Entry("non_positive_prices", NonPositivePrice(df)),
          returned |-> TRUE]

\* data_validator.py, DataValidator.validate_trades (lines 100-148).
data_validator_validate_trades(df) ==
    LET issues == Found("non_positive_price", NonPositivePrice(df))
                  \cup (IF Len(df) > 1 THEN Found("id_gaps", IdGaps(df)) ELSE {}) IN
    [fn |-> "validate_trades",
     valid |-> issues = {},
     issues |-> issues,
     warnings |-> {},
     metrics |-> Entry("non_positive_price_count", NonPositivePrice(df))
                 \cup (IF Len(df) > 1 THEN {<<"id_gaps", IdGaps(df)>>} ELSE {}),
     returned |-> TRUE]

validate_trades(module, df) ==
    IF module = "validators" THEN validators_validate_trades(df)
    ELSE data_validator_validate_trades(df)

ValidateInit ==
    /\ LimiterInit({1}) /\ max_concurrent_requests = 1
    /\ CacheInit
    /\ raised = FALSE
    /\ SyncIdle
    /\ SplitIdle
    /\ \/ ohlc_df \in Frames /\ trades_df = <<>>
       \/ ohlc_df = <<>> /\ trades_df \in IdFrames
    /\ validator \in {"validators", "data_validator"}
    /\ validation_result = NoResult
    /\ fixed_df = NoFix
    /\ AsyncIdle
    /\ PageIdle
    /\ RetryIdle
    /\ minute_bars = NoFrame

\* validate_ohlc is called on the frame.
ValidateOhlc ==
    /\ ~validation_result.returned
    /\ validation_result' = validate_ohlc(validator, ohlc_df)
    /\ UNCHANGED <<ohlc_df, validator, fixed_df, validFrame>>

\* validate_trades is called on the frame of trades.
ValidateTrades ==
    /\ ~validation_result.returned
    /\ validation_result' = validate_trades(validator, trades_df)
    /\ UNCHANGED <<ohlc_df, validator, fixed_df, validFrame>>

ValidateNext ==
    \/ ValidateOhlc
    \/ ValidateTrades

ValidateSpec == ValidateInit /\ [][ValidateNext]_vars

\* ------------------------------------------ fix_common_issues (validators.py)
\* fix_common_issues(df, data_type) of validators.py, lines 263-302, called by
\* a user of the DataValidator on a frame of candles or of trades; no code of
\* the package calls it.  A second call is made on the frame the first
\* returned.

Abs(n) == IF n < 0 THEN -n ELSE n

\* Lines 279-282: high and low are exchanged in the rows where high < low.
SwapHighLow(row) ==
    IF row.high < row.low THEN [row EXCEPT !.high = row.low, !.low = row.high] ELSE row

\* Lines 285-291: a negative value of a price column becomes its absolute
\* value (the frames have no volume column, which line 286 allows).
AbsNegative(row) ==
    [c \in DOMAIN row |->
        IF c \in {"open", "high", "low", "close", "volume"} /\ row[c] < 0
        THEN Abs(row[c]) ELSE row[c]]

\* Lines 295-300: a value <= 0 of price or quantity becomes its absolute value.
AbsNonPositive(row) ==
    [c \in DOMAIN row |->
        IF c \in {"price", "quantity"} /\ row[c] <= 0 THEN Abs(row[c]) ELSE row[c]]

\* The repaired frame: the swap of all rows first, then the absolute values.
Repaired(df, data_type) ==
    [i \in 1..Len(df) |->
        IF data_type = "ohlc" THEN AbsNegative(SwapHighLow(df[i]))
        ELSE AbsNonPositive(df[i])]

\* The repair applied to the caller's frame instead of a copy.
fix_common_issues_in_place(df, data_type) ==
    [argument |-> Repaired(df, data_type), returned |-> Repaired(df, data_type)]

\* fix_common_issues: the repair is made on df.copy() (line 275); argument is
\* the caller's frame after the call, returned is the frame returned.
fix_common_issues(df, data_type) ==
    [argument |-> df, returned |-> Repaired(df, data_type)]

\* Candle frames of consecutive intervals, shorter than the frames of
\* ValidateSpec, whose high and low may both be negative.
FixRows(i) ==
    [timestamp : {i - 1}, open : 1..MaxPrice, high : (-MaxPrice)..MaxPrice,
     low : (-MaxPrice)..MaxPrice, close : 1..MaxPrice]
FixFrames ==
    UNION {{df \in [1..n -> UNION {FixRows(i) : i \in 1..MaxRows}] : \A i \in 1..n : df[i] \in FixRows(i)} :
           n \in 0..(MaxRows - 1)}

FixInit ==
    /\ LimiterInit({1}) /\ max_concurrent_requests = 1
    /\ CacheInit
    /\ raised = FALSE
    /\ SyncIdle
    /\ SplitIdle
    /\ \/ ohlc_df \in FixFrames /\ trades_df = <<>>
       \/ ohlc_df = <<>> /\ trades_df \in IdFrames
    /\ validator = "validators"
    /\ validation_result = NoResult
    /\ fixed_df = NoFix
    /\ AsyncIdle
    /\ PageIdle
    /\ RetryIdle
    /\ minute_bars = NoFrame

\* The caller's frame of the data type.
FrameOf(data_type) == IF data_type = "ohlc" THEN ohlc_df ELSE trades_df

\* fix_common_issues is called on the caller's frame.
FixCommonIssues(data_type) ==
    /\ fixed_df.called = 0
    /\ data_type = "ohlc" \/ ohlc_df = <<>>
    /\ LET r == fix_common_issues(FrameOf(data_type), data_type) IN
        /\ fixed_df' = [called |-> 1, data_type |-> data_type,
                        arg |-> FrameOf(data_type), df |-> r.returned]
        /\ ohlc_df' = IF data_type = "ohlc" THEN r.argument ELSE ohlc_df
        /\ trades_df' = IF data_type = "trades" THEN r.argument ELSE trades_df
    /\ UNCHANGED <<limiterVars, cacheVars, raised, syncVars, splitVars, asyncVars, retryVars,
                   pageVars, minute_bars, validator, validation_result>>

\* fix_common_issues is called on the frame its first call returned.
FixAgain ==
    /\ fixed_df.called = 1
    /\ LET r == fix_common_issues(fixed_df.df, fixed_df.data_type) IN
        fixed_df' = [fixed_df EXCEPT !.called = 2, !.arg = r.argument, !.df = r.returned]
    /\ UNCHANGED <<ohlc_df, validator, validation_result, validFrame>>

FixNext ==
    \/ ValidateOhlc
    \/ ValidateTrades
    \/ \E data_type \in {"ohlc", "trades"} : FixCommonIssues(data_type)
    \/ FixAgain

FixSpec == FixInit /\ [][FixNext]_vars

\* ------------------------------------------------ fetch_ohlc_data (fetcher.py)
\* The call for the range (0, end_time) with interval '1m', from line 205 on:
\* the split of lines 205-221 (SplitStep, SplitDone), the gathered batch tasks
\* and the processing of their results.  Lines 200 and 248 call
\* cache_manager.get and cache_manager.set, which CacheManager does not
\* define; the lookup is taken as a miss and the call of line 248 as the write
\* of the frame it is given, recorded in cache_set.
\* Each task ends in the rows of the API's answer or in the exception of
\* make_request.  The API answers a batch (start, end) with candles whose
\* open times lie in start..end, both ends included, in ascending order.

OhlcFetches ==
    {[fn |-> "fetch_ohlc_data", start_time |-> 0, end_time |-> e,
      step |-> BatchDuration(0, e, 1, m), first |-> 0, span |-> m] :
        e \in 1..MaxOhlcEnd, m \in 1..MaxBatchSize}

Pending == [state |-> "pending", rows |-> <<>>]
Failed == [state |-> "exception", rows |-> <<>>]

\* A candle of the API: a sound one, or one with high < low.
ApiRow(t, broken) ==
    [timestamp |-> t, open |-> 1, high |-> IF broken THEN 1 ELSE 2,
     low |-> IF broken THEN 2 ELSE 1, close |-> 1]

RECURSIVE ApiRows(_, _)
ApiRows(stamps, broken) ==
    IF stamps = {} THEN <<>>
    ELSE LET t == CHOOSE m \in stamps : \A u \in stamps : m <= u IN
         <<ApiRow(t, t \in broken)>> \o ApiRows(stamps \ {t}, broken)

\* The answers the API may give to the klines request of a batch.
Answers(batch) ==
    {[state |-> "ok", rows |-> ApiRows(stamps, broken)] :
        stamps \in SUBSET (batch[1]..batch[2]), broken \in SUBSET (batch[1]..batch[2])}

\* Lines 231-237: the rows of the tasks that did not fail, in task order.
RECURSIVE AllData(_)
AllData(results) ==
    IF results = <<>> THEN <<>>
    ELSE (IF Head(results).state = "ok" THEN Head(results).rows ELSE <<>>)
             \o AllData(Tail(results))

OhlcInit ==
    /\ LimiterInit({1}) /\ max_concurrent_requests = 1
    /\ CacheInit
    /\ raised = FALSE
    /\ SyncIdle
    /\ split_args \in OhlcFetches
    /\ split_pc = "loop"
    /\ current_start = split_args.first
    /\ batches = <<>>
    /\ ValidIdle
    /\ AsyncIdle
    /\ PageIdle
    /\ RetryIdle
    /\ BarsIdle

\* Lines 223-229: one task per batch is created and gathered.
GatherBatches ==
    /\ ohlc_pc = "idle"
    /\ split_pc = "done"
    /\ split_args.fn = "fetch_ohlc_data"
    /\ ohlc_pc' = "gather"
    /\ batch_results' = [i \in 1..Len(batches) |-> Pending]
    /\ UNCHANGED <<cache_set, returned_df, splitVars, validVars, asyncFrame>>

\* The task of batch i ends (_fetch_ohlc_batch, lines 253-269); gather keeps
\* its result or its exception at position i.
BatchCompletes(i, result) ==
    /\ ohlc_pc = "gather"
    /\ i \in 1..Len(batch_results)
    /\ batch_results[i] = Pending
    /\ batch_results' = [batch_results EXCEPT ![i] = result]
    /\ UNCHANGED <<ohlc_pc, cache_set, returned_df, splitVars, validVars, asyncFrame>>

\* Lines 231-251, once gather has returned: failed batches are logged, the
\* rows of the others are concatenated, the frame is validated, handed to
\* cache_manager.set and returned.
ProcessResults ==
    /\ ohlc_pc = "gather"
    /\ \A i \in 1..Len(batch_results) : batch_results[i] # Pending
    /\ ohlc_df' = AllData(batch_results)
    /\ validator' = "validators"
    /\ validation_result' = validators_validate_ohlc(AllData(batch_results))
    /\ cache_set' = [given |-> TRUE, df |-> AllData(batch_results)]
    /\ returned_df' = [given |-> TRUE, df |-> AllData(batch_results)]
    /\ ohlc_pc' = "returned"
    /\ UNCHANGED <<batch_results, fixed_df, splitVars, asyncFrame>>

OhlcNext ==
    \/ SplitStep
    \/ SplitDone
    \/ GatherBatches
    \/ \E i \in 1..Len(batches) :
          \E result \in {Failed} \cup Answers(batches[i]) : BatchCompletes(i, result)
    \/ ProcessResults

OhlcSpec == OhlcInit /\ [][OhlcNext]_vars

\* --------------------------------- retry (utils.py) around the request methods
\* One call of a method decorated with @retry: binance_fetcher._make_request, a
\* plain function, or fetcher.make_request, a coroutine function.  The wrapper
\* of retry is a plain function: it catches what func(*args, **kwargs) raises.
\* Calling a coroutine function raises nothing and returns a coroutine object,
\* which the wrapper returns at once; the body runs when the caller awaits it,
\* outside the wrapper's try.  The server answers the n-th request of the call
\* with responses[n].  The nested lock of wait_if_needed is taken as granted.

Statuses == {200, 429, 500}

Scripts == [1..MAX_ATTEMPTS -> Statuses]

\* The delay the two decorated methods pass, and a longer one that the cap of
\* line 57 cuts.
Delays == {DELAY, LongDelay}

\* utils.py 56-57: the delay slept after the failure of attempt n.
CurrentDelayNoCap(n) == delay * BACKOFF_FACTOR ^ (n - 1)
CurrentDelay(n) ==
    LET current_delay == delay * BACKOFF_FACTOR ^ (n - 1) IN
    IF current_delay < MAX_DELAY THEN current_delay ELSE MAX_DELAY

RetryInit ==
    /\ LimiterInit({1}) /\ max_concurrent_requests = 1
    /\ CacheInit
    /\ raised = FALSE
    /\ SyncIdle
    /\ SplitIdle
    /\ ValidIdle
    /\ AsyncIdle
    /\ PageIdle
    /\ BarsIdle
    /\ retry_pc = "wrapper"
    /\ wrapped \in {"function", "coroutine"}
    /\ responses \in Scripts
    /\ delay \in Delays
    /\ attempt = 1
    /\ requests_sent = 0
    /\ throttle_reports = 0
    /\ backoff_delays = <<>>
    /\ request_result = "none"
    /\ last_exception = 0
    /\ caller_exception = 0
    /\ slept = 0
    /\ request_times = <<>>
    /\ admitted = 0

\* utils.py 48-54 and 70-74 around binance_fetcher.py 28-41: the wrapper calls
\* _make_request.  Line 31 calls the coroutine function wait_if_needed without
\* awaiting it, so no token is consumed; the request is sent; raise_for_status
\* raises for a status that is not a success, and the wrapper catches it,
\* keeps it in last_exception and raises it after the last attempt.
WrapperCallsFunction ==
    /\ retry_pc = "wrapper"
    /\ wrapped = "function"
    /\ requests_sent' = requests_sent + 1
    /\ request_times' = Append(request_times, slept)
    /\ IF responses[requests_sent + 1] = 200
       THEN /\ retry_pc' = "done"
            /\ request_result' = "success"
            /\ UNCHANGED <<last_exception, caller_exception>>
       ELSE /\ last_exception' = responses[requests_sent + 1]
            /\ IF attempt < MAX_ATTEMPTS
               THEN retry_pc' = "sleep" /\ UNCHANGED <<request_result, caller_exception>>
               ELSE /\ retry_pc' = "done"
                    /\ request_result' = "exception"
                    /\ caller_exception' = responses[requests_sent + 1]
    /\ UNCHANGED <<wrapped, responses, attempt, throttle_reports, backoff_delays, delay,
                   slept, admitted, retryFrame>>

\* utils.py 49-50 around fetcher.py 111-112: the call of the coroutine function
\* returns a coroutine object, and the wrapper returns it.
WrapperCallsCoroutine ==
    /\ retry_pc = "wrapper"
    /\ wrapped = "coroutine"
    /\ retry_pc' = "await"
    /\ UNCHANGED <<wrapped, responses, attempt, requests_sent, throttle_reports,
                   backoff_delays, request_result, delay, last_exception,
                   caller_exception, slept, request_times, admitted, retryFrame>>

\* utils.py 54-68: the wrapper sleeps the backoff delay and starts the next
\* attempt.
WrapperSleeps ==
    /\ retry_pc = "sleep"
    /\ backoff_delays' = Append(backoff_delays, CurrentDelay(attempt))
    /\ slept' = slept + CurrentDelay(attempt)
    /\ attempt' = attempt + 1
    /\ retry_pc' = "wrapper"
    /\ UNCHANGED <<wrapped, responses, requests_sent, throttle_reports, request_result,
                   delay, last_exception, caller_exception, request_times, admitted,
                   retryFrame>>

\* fetcher.py 129-175: the caller awaits the coroutine.  wait_if_needed
\* consumes a token and the request is sent.  A 429 is reported to the rate
\* limiter, Retry-After (the header is taken as absent) is slept and an
\* exception is raised; any exception is counted, logged and raised again to
\* the caller.
AwaitMakeRequest ==
    /\ retry_pc = "await"
    /\ admitted' = admitted + 1
    /\ requests_sent' = requests_sent + 1
    /\ request_times' = Append(request_times, slept)
    /\ throttle_reports' =
           IF responses[requests_sent + 1] = 429 THEN throttle_reports + 1 ELSE throttle_reports
    /\ slept' = IF responses[requests_sent + 1] = 429 THEN slept + RETRY_AFTER ELSE slept
    /\ request_result' = IF responses[requests_sent + 1] = 200 THEN "success" ELSE "exception"
    /\ caller_exception' =
           IF responses[requests_sent + 1] = 200 THEN 0 ELSE responses[requests_sent + 1]
    /\ retry_pc' = "done"
    /\ UNCHANGED <<wrapped, responses, attempt, backoff_delays, delay, last_exception,
                   retryFrame>>

RetryNext ==
    \/ WrapperCallsFunction
    \/ WrapperCallsCoroutine
    \/ WrapperSleeps
    \/ AwaitMakeRequest

RetrySpec == RetryInit /\ [][RetryNext]_vars

\* --------------------------------------- aggregate_to_minute_bars (fetcher.py)
\* A trade is a row with a timestamp and a positive price; the resampling
\* period '1T' is MINUTE instants long.  The columns summed or counted
\* (quantity, bid_volume, ask_volume, agg_trade_id) never hold NaN for a bucket,
\* so dropna removes exactly the buckets without a trade.

TradeRows == [timestamp : 0..MaxTradeTime, price : 1..MaxTradePrice]

TradeFrames == UNION {[1..n -> TradeRows] : n \in 0..MaxTrades}

\* Line 440, sort_index: the orders of the rows by ascending timestamp.  The
\* default sort is not stable, rows of equal timestamp may come in any order.
SortedOrders(trades) ==
    {p \in Permutations(1..Len(trades)) :
        \A i, j \in 1..Len(trades) :
            i < j => trades[p[i]].timestamp <= trades[p[j]].timestamp}

Sorted(trades, p) == [i \in 1..Len(trades) |-> trades[p[i]]]

\* resample('1T'): the bucket a timestamp falls in.
BucketOf(t) == t \div MINUTE

\* The prices of the trades of bucket b, in the order of the frame.
RECURSIVE PricesIn(_, _)
PricesIn(trades, b) ==
    IF trades = <<>> THEN <<>>
    ELSE (IF BucketOf(Head(trades).timestamp) = b THEN <<Head(trades).price>> ELSE <<>>)
             \o PricesIn(Tail(trades), b)

\* The aggregations 'first', 'max', 'min' and 'last' of lines 444-449.
FirstPrice(prices) == prices[1]
\* The aggregation of 'high' taken as 'first' instead of 'max'.
HighestAsFirst(prices) == prices[1]
HighestPrice(prices) ==
    CHOOSE x \in {prices[i] : i \in 1..Len(prices)} : \A i \in 1..Len(prices) : x >= prices[i]
LowestPrice(prices) ==
    CHOOSE x \in {prices[i] : i \in 1..Len(prices)} : \A i \in 1..Len(prices) : x <= prices[i]
LastPrice(prices) == prices[Len(prices)]

BarOf(b, prices) ==
    [timestamp |-> b * MINUTE,
     open |-> FirstPrice(prices), high |-> HighestPrice(prices),
     low |-> LowestPrice(prices), close |-> LastPrice(prices),
     trade_count |-> Len(prices)]

\* Lines 457-475: one row per bucket from bucket b on, without the buckets
\* that hold no trade.
RECURSIVE BarsFrom(_, _)
BarsFrom(trades, b) ==
    IF b > BucketOf(MaxTradeTime) THEN <<>>
    ELSE (IF PricesIn(trades, b) = <<>> THEN <<>> ELSE <<BarOf(b, PricesIn(trades, b))>>)
             \o BarsFrom(trades, b + 1)

\* The frame returned for the frame trades, sorted in the order p.
aggregate_to_minute_bars(trades, p) ==
    IF trades = <<>> THEN <<>> ELSE BarsFrom(Sorted(trades, p), 0)

BarsInit ==
    /\ LimiterInit({1}) /\ max_concurrent_requests = 1
    /\ CacheInit
    /\ raised = FALSE
    /\ SyncIdle
    /\ SplitIdle
    /\ ValidIdle
    /\ AsyncIdle
    /\ PageIdle
    /\ RetryIdle
    /\ trades_df \in TradeFrames
    /\ minute_bars = NoFrame

AggregateToMinuteBars(p) ==
    /\ ~minute_bars.given
    /\ p \in SortedOrders(trades_df)
    /\ minute_bars' = [given |-> TRUE, df |-> aggregate_to_minute_bars(trades_df, p)]
    /\ UNCHANGED <<trades_df, barsFrame>>

BarsNext == \E p \in Permutations(1..Len(trades_df)) : AggregateToMinuteBars(p)

BarsSpec == BarsInit /\ [][BarsNext]_vars

\* ------------------------------------------------ paging through the trades
\* The loop of fetch_trades_data (fetcher.py 327-345) and of
\* process_candle_trades (binance_fetcher.py 111-129) for one time range.  The
\* exchange holds the trades 1..Len(market), whose timestamps do not decrease
\* with the id.  It answers a request with the trades that pass every filter
\* the request carries (the time range, fromId), in ascending order of id, at
\* most `limit` of them.

Markets ==
    {m \in UNION {[1..n -> 0..MaxTradeTime] : n \in 0..MaxMarket} :
        \A i \in 1..(Len(m) - 1) : m[i] <= m[i + 1]}

TradeRanges == {r \in (0..MaxTradeTime) \X (0..MaxTradeTime) : r[1] <= r[2]}

\* The parameters of a request: fetcher._fetch_trades_batch (lines 371-384)
\* sends the time range without from_id and fromId alone with it;
\* binance_fetcher.fetch_trades_batch (lines 75-83) always sends the time
\* range, and fromId when from_id is set.
TradesParams(method, cursor) ==
    [timed |-> method = "process_candle_trades" \/ cursor = 0, fromId |-> cursor]

\* The ids of the trades that pass the filters of a request.
Matching(params) ==
    {i \in 1..Len(market) :
        /\ params.fromId # 0 => i >= params.fromId
        /\ params.timed => (trade_range[1] <= market[i] /\ market[i] <= trade_range[2])}

RECURSIVE FirstTrades(_, _)
FirstTrades(ids, n) ==
    IF n = 0 \/ ids = {} THEN <<>>
    ELSE LET i == CHOOSE m \in ids : \A u \in ids : m <= u IN
         <<[id |-> i, timestamp |-> market[i]]>> \o FirstTrades(ids \ {i}, n - 1)

\* The batch the exchange returns.
TradesBatch(params) == FirstTrades(Matching(params), page_limit)

\* fetcher.py 345, binance_fetcher.py 129: the cursor of the next request,
\* and the cursor that repeats the last trade.
SameFromId(batch) == batch[Len(batch)].id
NextFromId(batch) == batch[Len(batch)].id + 1

PageInit ==
    /\ LimiterInit({1}) /\ max_concurrent_requests = 1
    /\ CacheInit
    /\ raised = FALSE
    /\ SyncIdle
    /\ SplitIdle
    /\ ValidIdle
    /\ AsyncIdle
    /\ RetryIdle
    /\ BarsIdle
    /\ pager \in {"fetch_trades_data", "process_candle_trades"}
    /\ market \in Markets
    /\ trade_range \in TradeRanges
    /\ page_limit \in 1..MaxPageLimit
    /\ page_pc = "loop"
    /\ from_id = 0
    /\ page_requests = <<>>
    /\ pages = <<>>
    /\ all_trades = <<>>

\* One turn of `while True`: a batch is fetched; an empty batch ends the
\* loop; the batch is added to all_trades; a batch shorter than the limit
\* ends the loop; otherwise from_id is set for the next turn.
FetchTradesPage ==
    /\ page_pc = "loop"
    /\ LET params == TradesParams(pager, from_id)
           batch == TradesBatch(params) IN
       /\ page_requests' = Append(page_requests, params)
       /\ pages' = Append(pages, batch)
       /\ all_trades' = all_trades \o batch
       /\ page_pc' = IF Len(batch) < page_limit THEN "done" ELSE "loop"
       /\ from_id' = IF Len(batch) < page_limit THEN from_id ELSE NextFromId(batch)
    /\ UNCHANGED <<pager, market, trade_range, page_limit, pageFrame>>

PageNext == FetchTradesPage

PageSpec == PageInit /\ [][PageNext]_vars

\* ------------------------------------- cancellation of a fetch_ohlc_data call
\* The call awaits gather (fetcher.py line 229) over NumTasks batch tasks; each
\* task is one make_request (the retry wrapper of utils.py does not loop for a
\* coroutine), admitted by wait_if_needed as in Spec.  Cancelling the call
\* cancels gather, which cancels every task that has not ended: each receives
\* CancelledError at the await where it is suspended.  CancelledError is not
\* an Exception, so the handler of fetcher.py line 171 lets it pass, and the
\* `async with` blocks of rate_limiter.py lines 91-92 release on the way out.

\* The limiter is as __init__ leaves it, or its bucket has been emptied by the
\* requests of earlier calls at this same instant.
CancelInit ==
    /\ now = 0
    /\ max_tokens \in NominalCapacities
    /\ max_concurrent_requests \in 1..MaxConcurrent
    /\ tokens \in {0, max_tokens * TOKEN}
    /\ refill_rate = max_tokens
    /\ last_refill = 0
    /\ current_limit = max_tokens
    /\ recent_limits = <<>>
    /\ semaphore = max_concurrent_requests
    /\ lock = NoTask
    /\ pc = [t \in Tasks |-> "idle"]
    /\ wake = [t \in Tasks |-> 0]
    /\ CacheInit
    /\ raised = FALSE
    /\ SyncIdle
    /\ SplitIdle
    /\ ValidIdle
    /\ ohlc_pc = "gather"
    /\ batch_results = [t \in Tasks |-> Pending]
    /\ cache_set = NoFrame
    /\ returned_df = NoFrame
    /\ PageIdle
    /\ RetryIdle
    /\ BarsIdle

\* make_request, lines 146-169, in a batch task: a 200 ends the task with the
\* rows of the answer; a 429 reports the throttle and sleeps Retry-After.
BatchResponse(t, status) ==
    /\ pc[t] = "in_flight"
    /\ IF status = 429
       THEN /\ Len(RecentAfterReport(recent_limits, now)) <= MaxRecent
            /\ record_rate_limit
            /\ pc' = [pc EXCEPT ![t] = "retry_after"]
            /\ wake' = [wake EXCEPT ![t] = now + RETRY_AFTER]
            /\ UNCHANGED batch_results
       ELSE /\ pc' = [pc EXCEPT ![t] = "done"]
            /\ batch_results' = [batch_results EXCEPT
                                    ![t] = [state |-> "ok", rows |-> <<ApiRow(t, FALSE)>>]]
            /\ UNCHANGED <<current_limit, refill_rate, recent_limits, wake>>
    /\ UNCHANGED <<now, max_tokens, max_concurrent_requests, tokens, last_refill,
                   semaphore, lock>>
    /\ UNCHANGED <<cacheVars, raised, syncVars, splitVars, validVars, retryVars, barsVars,
                   pageVars, ohlc_pc, cache_set, returned_df>>

\* make_request, lines 156-157 and 171-175, in a batch task: the Retry-After
\* sleep is over and the task ends with the exception, which gather keeps.
BatchRaises(t) ==
    /\ pc[t] = "retry_after"
    /\ now >= wake[t]
    /\ pc' = [pc EXCEPT ![t] = "done"]
    /\ wake' = [wake EXCEPT ![t] = 0]
    /\ batch_results' = [batch_results EXCEPT ![t] = Failed]
    /\ UNCHANGED <<now, max_tokens, max_concurrent_requests, tokens, refill_rate,
                   last_refill, current_limit, recent_limits, semaphore, lock>>
    /\ UNCHANGED <<cacheVars, raised, syncVars, splitVars, validVars, retryVars, barsVars,
                   pageVars, ohlc_pc, cache_set, returned_df>>

\* Tasks that hold a permit of the semaphore: those past line 91 and still
\* inside wait_if_needed.
PermitHolders == {t \in Tasks : pc[t] \in {"wait_lock", "refill_wait_lock", "sleeping"}}

\* The call is cancelled while it awaits gather.  A task that has ended keeps
\* its result; every other task unwinds from its await: out of line 91 with
\* nothing held, out of line 92 giving back its permit, out of line 74 or
\* line 116 giving back lock and permit, out of fetcher.py line 146 or 156
\* with nothing held.  tokens is left as it is.
CancelFetch ==
    /\ ohlc_pc = "gather"
    /\ ohlc_pc' = "cancelled"
    /\ pc' = [t \in Tasks |-> IF pc[t] = "done" THEN "done" ELSE "cancelled"]
    /\ wake' = [t \in Tasks |-> 0]
    /\ semaphore' = semaphore + Cardinality(PermitHolders)
    /\ lock' = NoTask
    /\ UNCHANGED <<now, max_tokens, max_concurrent_requests, tokens, refill_rate,
                   last_refill, current_limit, recent_limits>>
    /\ UNCHANGED <<cacheVars, raised, syncVars, splitVars, validVars, retryVars, barsVars,
                   pageVars, batch_results, cache_set, returned_df>>

CancelNext ==
    \/ \E t \in Tasks : MakeRequest(t)
    \/ \E t \in Tasks : AcquireSemaphore(t)
    \/ \E t \in Tasks : AcquireLock(t)
    \/ \E t \in Tasks : WakeUp(t)
    \/ \E t \in Tasks, status \in {200, 429} : BatchResponse(t, status)
    \/ \E t \in Tasks : BatchRaises(t)
    \/ ProcessResults
    \/ CancelFetch
    \/ Tick

CancelSpec == CancelInit /\ [][CancelNext]_vars

\* ------------------------------------------------ a crash in the middle of a save
\* save_ohlc and save_trades write the payload straight to its path
\* (df.to_parquet, lines 98 and 162) and then the sidecar straight to its path
\* (to_json, lines 99 and 163).  The process may end at any point of the two
\* writes.  A payload or sidecar cut off in the middle is left torn: a parquet
\* file keeps its footer at the end and a JSON document its closing brace, so
\* read_parquet and read_json raise on a torn file and the load returns None
\* through its except clause.  The frame saved at slot t is payload t + 1.

Torn == -1
TornMeta == [exists |-> TRUE, start_time |-> 0, end_time |-> 0,
             cache_version |-> 0, cached_at |-> 0]
CrashPoints == {"in_payload", "between", "in_sidecar"}

\* The process ends inside save: during to_parquet, between the two writes,
\* or during to_json.  The memory tier goes with the process; a new process
\* starts over the same cache directory.
saveCrashes(path, df, start_time, end_time, point) ==
    /\ files' = [files EXCEPT ![path] = IF point = "in_payload" THEN Torn ELSE df]
    /\ written_by' = [written_by EXCEPT
                         ![path] = IF point = "in_payload" THEN NoMeta
                                   ELSE Metadata(start_time, end_time)]
    /\ sidecar' = IF point = "in_sidecar" THEN [sidecar EXCEPT ![path] = TornMeta]
                  ELSE sidecar
    /\ memory_cache' = <<>>
    /\ last_call' = NoCall
    /\ UNCHANGED cache_version

SaveOhlcCrashes(df, start_time, end_time, point) ==
    /\ saveCrashes(CachePath("ohlc", start_time, end_time), df, start_time, end_time, point)
    /\ UNCHANGED <<now, bucketVars, access_order, pipelineVars>>

SaveTradesCrashes(df, candle_time, point) ==
    /\ saveCrashes(CachePath("trades", candle_time, candle_time), df, candle_time,
                   candle_time, point)
    /\ UNCHANGED <<now, bucketVars, access_order, pipelineVars>>

\* load_ohlc and load_trades over a directory that may hold torn files: a
\* torn sidecar makes read_json raise (lines 125, 188), a torn payload that
\* passed the checks makes read_parquet raise (lines 139, 195).
ReadRaises(path, valid) ==
    /\ ~InMemory(memory_cache, path)
    /\ files[path] # NoFile
    /\ \/ sidecar[path] = TornMeta
       \/ valid /\ files[path] = Torn

CrashLoadOhlc(start_time, end_time) ==
    LET path == CachePath("ohlc", start_time, end_time) IN
    /\ IF ReadRaises(path, OhlcFileValid(path, start_time, end_time))
       THEN loadFails("load_ohlc", path, start_time, end_time)
       ELSE load_ohlc(start_time, end_time) /\ UNCHANGED raised
    /\ UNCHANGED <<now, bucketVars, access_order, syncVars, splitVars, validVars, asyncVars,
                   retryVars, barsVars, pageVars>>

CrashLoadTrades(candle_time) ==
    LET path == CachePath("trades", candle_time, candle_time) IN
    /\ IF ReadRaises(path, TradesFileValid(path))
       THEN loadFails("load_trades", path, candle_time, candle_time)
       ELSE load_trades(candle_time) /\ UNCHANGED raised
    /\ UNCHANGED <<now, bucketVars, access_order, syncVars, splitVars, validVars, asyncVars,
                   retryVars, barsVars, pageVars>>

CrashNext ==
    \/ \E r \in Ranges : SaveOhlc(now + 1, r[1], r[2])
    \/ \E c \in Candles : SaveTrades(now + 1, c)
    \/ \E r \in Ranges, point \in CrashPoints : SaveOhlcCrashes(now + 1, r[1], r[2], point)
    \/ \E c \in Candles, point \in CrashPoints : SaveTradesCrashes(now + 1, c, point)
    \/ \E r \in Ranges : CrashLoadOhlc(r[1], r[2])
    \/ \E c \in Candles : CrashLoadTrades(c)
    \/ CacheTick

CrashSpec == CacheSpecInit /\ [][CrashNext]_vars

\* ------------------------ bid/ask volumes and the bars of aggregate_to_minute_bars
\* The frame of trades as _process_trades_data builds it (fetcher.py 388-420)
\* goes through compute_bid_ask_volumes (line 356, utils.py 107-150) and then
\* through aggregate_to_minute_bars with all its columns.  Quantities are
\* exact amounts.  agg_trade_id holds a value in every row, so its 'count' is
\* the number of rows of the bucket, the trade_count of BarOf.

\* Trades come at the start of a bucket or at the last instant of bucket 0.
RawTrades ==
    [timestamp : {b * MINUTE : b \in 0..MaxBucket} \cup {MINUTE - 1}, price : 1..MaxTradePrice,
     quantity : {1, MaxQuantity}, is_buyer_maker : BOOLEAN]

RawFrames == UNION {[1..n -> RawTrades] : n \in 0..MaxVolumeTrades}

\* The two columns with the sides exchanged.
compute_ask_bid_volumes(trades) ==
    [i \in 1..Len(trades) |->
        trades[i] @@ [bid_volume |-> IF trades[i].is_buyer_maker THEN 0
                                     ELSE trades[i].quantity,
                      ask_volume |-> IF trades[i].is_buyer_maker THEN trades[i].quantity
                                     ELSE 0]]

\* utils.py 141-148: bid_volume and ask_volume start at 0.0; the rows whose
\* is_buyer_maker is True get their quantity as bid_volume, the others as
\* ask_volume.
compute_bid_ask_volumes(trades) ==
    [i \in 1..Len(trades) |->
        trades[i] @@ [bid_volume |-> IF trades[i].is_buyer_maker THEN trades[i].quantity
                                     ELSE 0,
                      ask_volume |-> IF trades[i].is_buyer_maker THEN 0
                                     ELSE trades[i].quantity]]

\* The rows of bucket b, in the order of the frame.
RowsIn(trades, b) == SelectSeq(trades, LAMBDA row : BucketOf(row.timestamp) = b)

\* The aggregation 'sum' of a column over the rows of a bucket (lines 450-452).
RECURSIVE ColumnSum(_, _)
ColumnSum(rows, column) ==
    IF rows = <<>> THEN 0 ELSE Head(rows)[column] + ColumnSum(Tail(rows), column)

\* agg_dict applied to the rows of bucket b (lines 443-472).
VolumeBarOf(b, rows) ==
    BarOf(b, [i \in 1..Len(rows) |-> rows[i].price])
        @@ [volume |-> ColumnSum(rows, "quantity"),
            bid_volume |-> ColumnSum(rows, "bid_volume"),
            ask_volume |-> ColumnSum(rows, "ask_volume")]

\* The row resample gives a bucket without trades: NaN prices, zero sums.
EmptyBar(b) ==
    [timestamp |-> b * MINUTE, open |-> 0, high |-> 0, low |-> 0, close |-> 0,
     trade_count |-> 0, volume |-> 0, bid_volume |-> 0, ask_volume |-> 0]

\* The rows of the buckets kept without the dropna of line 475.
BucketBarsKept(trades, b) ==
    IF RowsIn(trades, b) = <<>> THEN <<EmptyBar(b)>>
    ELSE <<VolumeBarOf(b, RowsIn(trades, b))>>

\* Lines 457 and 475: the row of bucket b; dropna removes it when the bucket
\* holds no trade, its price columns being NaN.
BucketBars(trades, b) ==
    IF RowsIn(trades, b) = <<>> THEN <<>> ELSE <<VolumeBarOf(b, RowsIn(trades, b))>>

\* Lines 457-478: the rows in ascending order of the bucket.
RECURSIVE Resampled(_, _)
Resampled(trades, b) ==
    IF b > MaxBucket THEN <<>> ELSE BucketBars(trades, b) \o Resampled(trades, b + 1)

VolumeInit ==
    /\ LimiterInit({1}) /\ max_concurrent_requests = 1
    /\ CacheInit
    /\ raised = FALSE
    /\ SyncIdle
    /\ SplitIdle
    /\ ValidIdle
    /\ AsyncIdle
    /\ PageIdle
    /\ RetryIdle
    /\ trades_df \in RawFrames
    /\ minute_bars = NoFrame

HasVolumes(trades) == trades # <<>> /\ "bid_volume" \in DOMAIN trades[1]

\* fetch_trades_data, line 356: df = compute_bid_ask_volumes(df).  An empty
\* frame has no column and makes it raise (utils.py 132-135).
ComputeBidAskVolumes ==
    /\ trades_df # <<>>
    /\ ~HasVolumes(trades_df)
    /\ trades_df' = compute_bid_ask_volumes(trades_df)
    /\ UNCHANGED <<minute_bars, barsFrame>>

\* aggregate_to_minute_bars (lines 434-481) on the frame with its volumes,
\* sorted in the order p.
AggregateVolumes(p) ==
    /\ ~minute_bars.given
    /\ trades_df = <<>> \/ HasVolumes(trades_df)
    /\ p \in SortedOrders(trades_df)
    /\ minute_bars' = [given |-> TRUE,
                       df |-> IF trades_df = <<>> THEN <<>>
                              ELSE Resampled(Sorted(trades_df, p), 0)]
    /\ UNCHANGED <<trades_df, barsFrame>>

VolumeNext ==
    \/ ComputeBidAskVolumes
    \/ \E p \in Permutations(1..Len(trades_df)) : AggregateVolumes(p)

VolumeSpec == VolumeInit /\ [][VolumeNext]_vars

Init == LimiterInit(NominalCapacities) /\ CacheInit /\ PipelineInit

Next ==
    \/ \E t \in Tasks : MakeRequest(t)
    \/ \E t \in Tasks : AcquireSemaphore(t)
    \/ \E t \in Tasks : AcquireLock(t)
    \/ \E t \in Tasks : WakeUp(t)
    \/ \E t \in Tasks, status \in {200, 429} : Response(t, status)
    \/ \E t \in Tasks : RetryAfterElapsed(t)
    \/ RecordRateLimit
    \/ RecordSuccess
    \/ Tick

Spec == Init /\ [][Next]_vars

\* ------------------------------------------------- capacity adaptation alone
\* record_rate_limit and record_success over whole throttle windows, for every
\* nominal capacity up to MaxNominal; no caller is inside wait_if_needed.

\* The clock advances by a second or by a whole throttle window.
AdaptTick(d) ==
    /\ now + d \in Instants
    /\ now' = now + d
    /\ UNCHANGED <<max_tokens, max_concurrent_requests, tokens, refill_rate,
                   last_refill, current_limit, recent_limits, semaphore, lock, pc, wake>>
    /\ UNCHANGED <<cacheVars, pipelineVars>>

AdaptInit == LimiterInit(1..MaxNominal) /\ CacheInit /\ PipelineInit

AdaptNext ==
    \/ RecordRateLimit
    \/ RecordSuccess
    \/ \E d \in {1, WINDOW} : AdaptTick(d)

AdaptSpec == AdaptInit /\ [][AdaptNext]_vars

\* ------------------------------------------- the lock protocol of admission
\* asyncio.Lock is not reentrant: acquire() by the task that holds the lock
\* suspends it until release(), which only that task could call.

\* wait_if_needed, lines 91-94, then _refill_tokens, line 74: the caller takes
\* a permit and the lock when they are free, calls _refill_tokens and suspends
\* in its `async with self.lock`.  Nothing releases a permit or the lock
\* afterwards, so no suspended caller is ever resumed.
LockedCall(t) ==
    /\ pc[t] = "idle"
    /\ IF semaphore = 0
       THEN /\ pc' = [pc EXCEPT ![t] = "wait_semaphore"]
            /\ UNCHANGED <<semaphore, lock>>
       ELSE IF lock # NoTask
       THEN /\ pc' = [pc EXCEPT ![t] = "wait_lock"]
            /\ semaphore' = semaphore - 1
            /\ UNCHANGED lock
       ELSE /\ pc' = [pc EXCEPT ![t] = "refill_wait_lock"]
            /\ semaphore' = semaphore - 1
            /\ lock' = t
    /\ UNCHANGED <<now, max_tokens, max_concurrent_requests, tokens, refill_rate,
                   last_refill, current_limit, recent_limits, wake>>
    /\ UNCHANGED <<cacheVars, pipelineVars>>

LockInit == LimiterInit(NominalCapacities) /\ CacheInit /\ PipelineInit

LockNext ==
    \/ \E t \in Tasks : LockedCall(t)
    \/ RecordRateLimit
    \/ RecordSuccess
    \/ Tick

LockSpec == LockInit /\ [][LockNext]_vars

\* The event loop runs every task that is ready to run.
LockFairSpec == LockSpec /\ WF_vars(LockNext)

Suspended == {"wait_semaphore", "wait_lock", "refill_wait_lock", "sleeping"}
InFlight == {t \in Tasks : pc[t] = "in_flight"}
Floor == max_tokens \div 2
\* A step of record_rate_limit: only it changes recent_limits, and it always does.
IsReport == recent_limits' # recent_limits

\* ------------------------------------------------------------------ claims

TokensWithinCapacity == tokens <= current_limit * TOKEN

\* C3: every caller that has entered wait_if_needed eventually returns from
\* it (after which its request is in flight).
AdmitEventuallyReturns ==
    \A t \in Tasks : (pc[t] \in Suspended) ~> (pc[t] = "in_flight")

\* C4: the effective capacity is never below half the nominal capacity.
CapacityAtLeastHalf == 2 * current_limit >= max_tokens

\* C5 as stated: a throttle report that leaves at least 3 reports in the
\* trailing window makes current_limit strictly smaller.
ThrottleStrictlyShrinks ==
    [][(IsReport /\ Len(recent_limits') >= MIN_RECENT)
          => current_limit' < current_limit]_vars

\* C5 as amended: such a report makes current_limit strictly smaller while it
\* is above the floor int(max_tokens * 0.5), and leaves it unchanged at the floor.
ThrottleShrinksToFloor ==
    [][(IsReport /\ Len(recent_limits') >= MIN_RECENT)
          => IF current_limit > Floor
             THEN current_limit' < current_limit /\ current_limit' >= Floor
             ELSE current_limit' = current_limit]_vars

\* C5 witness: three reports lie in the window and the capacity has shrunk.
ThrottleShrunk ==
    /\ Len(recent_limits) >= MIN_RECENT
    /\ current_limit < max_tokens

IsLoad == last_call.op \in {"load_ohlc", "load_trades"}
MemoryKeys == {memory_cache[i].key : i \in 1..Len(memory_cache)}

\* C7: a load that follows a save of payload v under the same arguments
\* returns v.
RoundTrip ==
    [][(\/ last_call.op = "save_ohlc" /\ last_call'.op = "load_ohlc"
        \/ last_call.op = "save_trades" /\ last_call'.op = "load_trades")
       /\ last_call'.start_time = last_call.start_time
       /\ last_call'.end_time = last_call.end_time
          => last_call'.hit /\ last_call'.df = last_call.df]_vars

\* C8: the memory tier holds exactly the min(N, number of distinct keys) keys
\* most recently inserted or hit.
LruHoldsMostRecent ==
    LET n == Min(MaxCacheSize, Len(access_order)) IN
    MemoryKeys = {access_order[i] : i \in (Len(access_order) - n + 1)..Len(access_order)}

\* C8 witness: more than N distinct keys were inserted, so a key has left the
\* full tier, and the latest call was a hit in the memory tier.
LruEvictedAfterHit ==
    /\ Len(access_order) > MaxCacheSize
    /\ Len(memory_cache) = MaxCacheSize
    /\ last_call.tier = "memory"

\* C9: every hit of load_ohlc comes from an entry of the current schema
\* version whose covered range contains the requested range.
OhlcHitIsValid ==
    (last_call.op = "load_ohlc" /\ last_call.hit)
        => /\ last_call.meta.cache_version = cache_version
           /\ last_call.meta.start_time <= last_call.start_time
           /\ last_call.meta.end_time >= last_call.end_time

\* C10: no load returns an entry whose TTL had elapsed when it was called.
HitNotExpired ==
    (IsLoad /\ last_call.hit) => last_call.at - last_call.meta.cached_at < CacheExpiry

\* C11: no CacheManager call lets a disk failure reach its caller, so no
\* fetch fails because a cache write failed.
CacheNeverRaises == ~raised

\* C12: a second fetch_complete_dataset call for the range of a first call
\* that returned a dataset sends no request to the API.
SecondFetchSendsNothing == fetch_call >= 2 => fetch_requests = 0

\* C13: the batches of a split are non-empty and contiguous, the first starts
\* at start_time, none spans more than the allowed size, and the last ends
\* at end_time.
SplitCoversRange ==
    LET n == Len(batches) IN
    /\ \A i \in 1..n : /\ batches[i][1] < batches[i][2]
                       /\ batches[i][2] - batches[i][1] <= split_args.span
    /\ n > 0 => batches[1][1] = split_args.start_time
    /\ \A i \in 1..(n - 1) : batches[i][2] = batches[i + 1][1]
    /\ split_pc = "done" => n > 0 /\ batches[n][2] = split_args.end_time

\* C20: for a candle frame with at least one row of high < low, validate_ohlc
\* returns valid = False and metrics["invalid_high_low"] is the number of
\* those rows.
HighLowCounted ==
    (validation_result.fn = "validate_ohlc" /\ HighBelowLow(ohlc_df) > 0)
        => /\ ~validation_result.valid
           /\ <<"invalid_high_low", HighBelowLow(ohlc_df)>>
                  \in validation_result.metrics

BatchFailed == \E i \in 1..Len(batch_results) : batch_results[i].state = "exception"
OhlcEnded == ohlc_pc \in {"returned", "raised"}

\* C14: a fetch_ohlc_data call in which a batch failed returns no dataset.
NoPartialDataset == (OhlcEnded /\ BatchFailed) => ~returned_df.given

\* C15: fetch_ohlc_data hands a frame to the cache only when every batch
\* succeeded and the validation report is valid.
CacheOnlyOnSuccess == cache_set.given => (~BatchFailed /\ validation_result.valid)

\* C16: when the validation report is not valid the call raises and returns
\* no dataset.
InvalidReportRaises ==
    (OhlcEnded /\ ~validation_result.valid) => (ohlc_pc = "raised" /\ ~returned_df.given)

\* C18: the merged frame handed to validation is in strictly ascending order
\* of timestamp, hence without duplicate timestamps.
MergedStrictlyAscending ==
    validation_result.returned
        => \A i \in 1..(Len(ohlc_df) - 1) : ohlc_df[i].timestamp < ohlc_df[i + 1].timestamp


\* C17: a call whose first two requests are answered 429 and whose third is
\* answered 200 ends in success with exactly one report to the rate limiter and
\* exactly two backoff delays slept.
ThrottledTwiceThenSucceeds ==
    (retry_pc = "done" /\ responses = <<429, 429, 200>>)
        => /\ request_result = "success"
           /\ throttle_reports = 1
           /\ Len(backoff_delays) = 2


\* C19: every bar aggregate_to_minute_bars returns for a non-empty frame of
\* trades with positive prices has low <= open <= high and low <= close <= high.
BarsWithinRange ==
    (minute_bars.given /\ trades_df # <<>>)
        => \A i \in 1..Len(minute_bars.df) :
              LET bar == minute_bars.df[i] IN
              /\ bar.low <= bar.open /\ bar.open <= bar.high
              /\ bar.low <= bar.close /\ bar.close <= bar.high

\* C19, witness: a returned bar built from several trades whose first and last
\* prices differ, next to a second bar.
BarOfSeveralPrices ==
    /\ minute_bars.given
    /\ Len(minute_bars.df) >= 2
    /\ \E i \in 1..Len(minute_bars.df) :
          LET bar == minute_bars.df[i] IN
          bar.trade_count >= 2 /\ bar.open # bar.close /\ bar.low < bar.high


\* A frame whose only anomaly is a gap between timestamps, an extreme
\* volatility, or a gap between trade ids.
Sound(df) == NegativeHigh(df) = 0 /\ NegativeLow(df) = 0 /\ HighBelowLow(df) = 0
NoDuplicate(df) == \A i \in 1..Len(df) : ~IsDuplicate(df, i)
OnlyTimeGap(df) ==
    Len(df) > 1 /\ Gaps(df) > 0 /\ Sound(df) /\ NoDuplicate(df) /\ ExtremeVolatility(df) = 0
OnlyVolatility(df) ==
    Len(df) > 0 /\ ExtremeVolatility(df) > 0 /\ Sound(df) /\ NoDuplicate(df) /\ Gaps(df) = 0
OnlyIdGap(df) == Len(df) > 1 /\ IdGaps(df) > 0 /\ NonPositivePrice(df) = 0

\* C21: a candle frame whose only anomaly is a time gap is valid with the gap
\* among the warnings, one whose only anomaly is an extreme volatility is
\* valid, and a trade frame whose only anomaly is an id gap is valid with the
\* gap in the metrics and in no warning or issue.
WarningsKeepValid ==
    /\ (validation_result.fn = "validate_ohlc" /\ OnlyTimeGap(ohlc_df))
           => validation_result.valid /\ "time_gaps" \in validation_result.warnings
    /\ (validation_result.fn = "validate_ohlc" /\ OnlyVolatility(ohlc_df))
           => validation_result.valid
    /\ (validation_result.fn = "validate_trades" /\ OnlyIdGap(trades_df))
           => /\ validation_result.valid
              /\ <<"id_gaps", IdGaps(trades_df)>> \in validation_result.metrics
              /\ validation_result.warnings = {} /\ validation_result.issues = {}


\* The first attempt the server answers with a success, 0 when there is none.
FirstSuccess ==
    IF \E k \in 1..MAX_ATTEMPTS : responses[k] = 200
    THEN CHOOSE k \in 1..MAX_ATTEMPTS :
             responses[k] = 200 /\ \A m \in 1..(k - 1) : responses[m] # 200
    ELSE 0

\* C22: a call that has ended sent exactly k requests and succeeded when the
\* k-th request is the first one answered with a success, and sent exactly
\* max_attempts requests and failed when none is.
ExactlyTheAttempts ==
    retry_pc = "done"
        => IF FirstSuccess = 0
           THEN requests_sent = MAX_ATTEMPTS /\ request_result = "exception"
           ELSE requests_sent = FirstSuccess /\ request_result = "success"


\* C25: at all times the requests sent are at most the tokens that
\* wait_if_needed has consumed.
RequestsWithinAdmissions == requests_sent <= admitted

\* C26: once a request has been answered 429, every such answer has been
\* reported to the rate limiter, the next request of the call is sent at least
\* Retry-After seconds later, and the call does not end before a next request
\* is sent while attempts remain.
ThrottleHonoured ==
    \A n \in 1..requests_sent :
        responses[n] = 429
            => /\ throttle_reports >= Cardinality({m \in 1..n : responses[m] = 429})
               /\ n < requests_sent => request_times[n + 1] - request_times[n] >= RETRY_AFTER
               /\ (retry_pc = "done" /\ n < MAX_ATTEMPTS) => requests_sent > n

\* C27: the n-th delay the wrapper sleeps is delay * backoff_factor^(n-1), or
\* 60 when that is more; it sleeps at most max_attempts - 1 times, and when the
\* wrapped call has raised max_attempts times the call ends, without a further
\* sleep, with the exception of the last attempt.
BackoffSchedule ==
    /\ \A n \in 1..Len(backoff_delays) :
          LET d == delay * BACKOFF_FACTOR ^ (n - 1) IN
          backoff_delays[n] = IF d > MAX_DELAY THEN MAX_DELAY ELSE d
    /\ Len(backoff_delays) = attempt - 1
    /\ attempt <= MAX_ATTEMPTS
    /\ (requests_sent = MAX_ATTEMPTS /\ responses[MAX_ATTEMPTS] # 200)
           => /\ retry_pc = "done"
              /\ request_result = "exception"
              /\ caller_exception = responses[MAX_ATTEMPTS]
              /\ caller_exception = last_exception

\* C27, witness: a call with the long delay whose three attempts all failed:
\* the second delay was cut to the cap and the last exception was raised.
BackoffCapped ==
    /\ retry_pc = "done"
    /\ request_result = "exception"
    /\ Len(backoff_delays) = MAX_ATTEMPTS - 1
    /\ backoff_delays[1] < MAX_DELAY
    /\ backoff_delays[MAX_ATTEMPTS - 1] = MAX_DELAY
    /\ responses[MAX_ATTEMPTS] # responses[1]


\* C23: whenever no throttle report lies in the trailing window and
\* current_limit is below max_tokens, the value record_success assigns to
\* current_limit is strictly larger.  (A call that assigns the same value
\* changes nothing.)
SuccessStrictlyGrows ==
    (/\ Len(SelectSeq(recent_limits, LAMBDA s : now - s < WINDOW)) = 0
     /\ current_limit < max_tokens)
        => RecoveredLimit(current_limit, max_tokens) > current_limit


SplitLoopTerminates ==
    /\ [][(split_args.fn = "fetch_ohlc_data" /\ batches' # batches)
             => current_start' > current_start]_vars
    /\ []((split_args.fn = "fetch_ohlc_data" /\ split_pc = "done") => Len(batches) > 0)


\* C28: every request after the first carries fromId = last id of the batch
\* before it plus one; a further request follows a batch exactly when the
\* batch holds `limit` trades; the ids of all_trades increase strictly.
PagingByCursor ==
    /\ \A k \in 2..Len(page_requests) :
          /\ Len(pages[k - 1]) = page_limit
          /\ page_requests[k].fromId = pages[k - 1][page_limit].id + 1
    /\ (page_pc = "loop" /\ Len(pages) > 0) => Len(pages[Len(pages)]) = page_limit
    /\ page_pc = "done" => (Len(pages) > 0 /\ Len(pages[Len(pages)]) < page_limit)
    /\ \A i \in 1..(Len(all_trades) - 1) : all_trades[i].id < all_trades[i + 1].id

\* C28, witness: a loop that ended after at least three requests.
PagedThrice ==
    /\ page_pc = "done"
    /\ Len(page_requests) >= 3
    /\ Len(all_trades) > page_limit

RejectedEntryDeleted ==
    LET path == CachePath(IF last_call.op = "load_ohlc" THEN "ohlc" ELSE "trades",
                          last_call.start_time, last_call.end_time) IN
    (last_call.op \in {"load_ohlc", "load_trades"} /\ ~last_call.hit) =>
        (files[path] = NoFile /\ ~sidecar[path].exists)


\* C33: whatever saves crashed before, a load that reads a payload from disk
\* reads a completely written one together with the sidecar that the same
\* save wrote.
LoadedPairFromOneSave ==
    (IsLoad /\ last_call.hit /\ last_call.tier = "disk") =>
        LET path == CachePath(IF last_call.op = "load_ohlc" THEN "ohlc" ELSE "trades",
                              last_call.start_time, last_call.end_time) IN
        /\ last_call.df # Torn
        /\ last_call.meta # TornMeta
        /\ last_call.meta = written_by[path]


\* C34: the bars do not depend on the order of the rows of the frame: every
\* ordering of the same trades, however sort_index arranges the trades of equal
\* timestamp, gives the bars that were returned.
BarsIndependentOfOrder ==
    minute_bars.given =>
        \A q \in Permutations(1..Len(trades_df)) :
            \A p \in SortedOrders(Sorted(trades_df, q)) :
                aggregate_to_minute_bars(Sorted(trades_df, q), p) = minute_bars.df


\* The trades of the frame that fall in bucket b.
TradesOfBucket(b) == {i \in 1..Len(trades_df) : BucketOf(trades_df[i].timestamp) = b}
NonEmptyBuckets == {b \in 0..MaxBucket : TradesOfBucket(b) # {}}
RECURSIVE QuantityOf(_)
QuantityOf(S) ==
    IF S = {} THEN 0
    ELSE LET i == CHOOSE j \in S : TRUE IN trades_df[i].quantity + QuantityOf(S \ {i})

\* C35: the bar of every bucket that holds trades has the maximum and minimum
\* price of the bucket as high and low, the sum of its quantities as volume,
\* the sum over its buyer-maker trades as bid_volume, the sum over its other
\* trades as ask_volume and the number of its trades as trade_count, so that
\* bid_volume + ask_volume = volume.
VolumesPerBucket ==
    minute_bars.given =>
        \A b \in NonEmptyBuckets :
            \E k \in 1..Len(minute_bars.df) :
                LET bar == minute_bars.df[k]
                    makers == {i \in TradesOfBucket(b) : trades_df[i].is_buyer_maker}
                IN  /\ bar.timestamp = b * MINUTE
                    /\ \A i \in TradesOfBucket(b) :
                          bar.low <= trades_df[i].price /\ trades_df[i].price <= bar.high
                    /\ \E i \in TradesOfBucket(b) : trades_df[i].price = bar.high
                    /\ \E i \in TradesOfBucket(b) : trades_df[i].price = bar.low
                    /\ bar.volume = QuantityOf(TradesOfBucket(b))
                    /\ bar.bid_volume = QuantityOf(makers)
                    /\ bar.ask_volume = QuantityOf(TradesOfBucket(b) \ makers)
                    /\ bar.trade_count = Cardinality(TradesOfBucket(b))
                    /\ bar.bid_volume + bar.ask_volume = bar.volume

\* C35 witness: a bar of two trades, one on each side, with different prices.
BarOfBothSides ==
    /\ minute_bars.given
    /\ \E k \in 1..Len(minute_bars.df) :
          /\ minute_bars.df[k].trade_count = 2
          /\ minute_bars.df[k].bid_volume > 0
          /\ minute_bars.df[k].ask_volume > minute_bars.df[k].bid_volume
          /\ minute_bars.df[k].high > minute_bars.df[k].low

\* C36: the frame returned holds one bar for each bucket with a trade and no
\* other row, in strictly ascending order of the bucket start.
OneBarPerBucket ==
    minute_bars.given =>
        /\ Len(minute_bars.df) = Cardinality(NonEmptyBuckets)
        /\ {minute_bars.df[k].timestamp : k \in 1..Len(minute_bars.df)}
               = {b * MINUTE : b \in NonEmptyBuckets}
        /\ \A k \in 1..(Len(minute_bars.df) - 1) :
              minute_bars.df[k].timestamp < minute_bars.df[k + 1].timestamp

\* C36 witness: two bars around a bucket without trades.
BarsAroundEmptyBucket ==
    /\ minute_bars.given
    /\ Len(minute_bars.df) = 2
    /\ minute_bars.df[1].timestamp = 0
    /\ minute_bars.df[2].timestamp = 2 * MINUTE
    /\ Len(trades_df) = 2


\* C37: in every report of validators.py the score lies in [0, 1] and is 1.0
\* less 0.1 per error, at most 0.5, less 0.05 per warning, at most 0.3, for
\* the errors and warnings of that report, and valid tells whether the
\* report has no error.
ScoreFromReport ==
    (validation_result.returned /\ validator = "validators") =>
        /\ validation_result.score \in 0..100
        /\ validation_result.score
              = 100 - Min(50, 10 * Cardinality(validation_result.errors))
                    - Min(30, 5 * Cardinality(validation_result.warnings))
        /\ validation_result.valid <=> validation_result.errors = {}


\* C38: no step changes the frame of the caller: validate_ohlc and
\* validate_trades leave their input as it is and repair nothing, and
\* fix_common_issues, which runs only as a call of its own, returns the
\* repaired frame as a copy and leaves its argument as it was.
InputLeftAlone ==
    [][/\ ohlc_df' = ohlc_df
       /\ trades_df' = trades_df
       /\ validation_result' # validation_result => fixed_df' = fixed_df
       /\ fixed_df'.called = 1 =>
              fixed_df'.arg = IF fixed_df'.data_type = "ohlc" THEN ohlc_df' ELSE trades_df']_vars

\* C38 witness: a frame with a row of high < low has been validated and
\* repaired; the repaired copy differs from the frame, which was reported
\* as not valid.
RepairedCopy ==
    /\ fixed_df.called = 1
    /\ fixed_df.data_type = "ohlc"
    /\ HighBelowLow(ohlc_df) > 0
    /\ fixed_df.df # ohlc_df
    /\ validation_result.returned
    /\ ~validation_result.valid


\* C39: the frame fix_common_issues returns has no row with high < low and no
\* negative high or low, for candles, and no price <= 0, for trades; and a
\* second call on the frame returned returns it as it is.
RepairedForGood ==
    /\ (fixed_df.called > 0 /\ fixed_df.data_type = "ohlc") =>
          /\ HighBelowLow(fixed_df.df) = 0
          /\ NegativeHigh(fixed_df.df) = 0
          /\ NegativeLow(fixed_df.df) = 0
    /\ (fixed_df.called > 0 /\ fixed_df.data_type = "trades") =>
          NonPositivePrice(fixed_df.df) = 0
    /\ fixed_df.called = 2 => fixed_df.df = fixed_df.arg


\* C40: in every state reached by record_rate_limit and record_success calls
\* the refill rate is the effective capacity divided by 60 (here both are
\* counted in tokens per minute) and is strictly positive.
RefillRatePositive ==
    /\ refill_rate = current_limit
    /\ refill_rate > 0

====
